---- MODULE Spec2Model ----
(***************************************************************************)
(* Hybrid blob storage of the patient service: PatientService,             *)
(* FileService, Base64ChunkStream and PatientController.createPatient,     *)
(* over a MongoDB patients collection and a GridFS bucket.                 *)
(*                                                                         *)
(* Byte buffers and base64 strings are run-length encoded so that the      *)
(* program's real thresholds (1 MiB, 10 MiB, 255 KiB chunks) can be used:  *)
(* a buffer is a sequence of runs [b |-> byte, n |-> count], a base64      *)
(* string a sequence of runs [c |-> character, n |-> count].  A base64     *)
(* character is its sextet value 0..63, or Pad ('=').                      *)
(***************************************************************************)
EXTENDS Integers, Sequences, FiniteSets, TLC

----------------------------------------------------------------------------
(* Program constants                                                       *)

RawThreshold == 1048576

MaxDirectSize == 10485760

ChunkSizeBytes == 261120

DefaultStreamChunk == 1048576

DirectDecodeLimit == 5242880

DecodeSliceChars == 4194304

DefaultMaxSize == 16777216

Pad == 64

\* a character that is neither of the base64 alphabet nor '=' (such as '*')
Bad == 65

allowedTypes == {"application/pdf", "image/jpeg", "image/jpg", "image/png", "image/gif"}

----------------------------------------------------------------------------
(* Byte buffers (Buffer)                                                   *)

Min(a, b) == IF a < b THEN a ELSE b

Max(a, b) == IF a > b THEN a ELSE b

EmptyBuf == << >>

RECURSIVE BufLen(_)
BufLen(buf) == IF buf = << >> THEN 0 ELSE Head(buf).n + BufLen(Tail(buf))

\* buf followed by n copies of byte b (runs of equal bytes are merged)
AppendBytes(buf, b, n) ==
    IF n = 0 THEN buf
    ELSE IF buf # << >> /\ buf[Len(buf)].b = b
         THEN [buf EXCEPT ![Len(buf)].n = @ + n]
         ELSE Append(buf, [b |-> b, n |-> n])

RECURSIVE BufConcat(_, _)
BufConcat(a, b) ==
    IF b = << >> THEN a
    ELSE BufConcat(AppendBytes(a, Head(b).b, Head(b).n), Tail(b))

\* Buffer.concat(list)
RECURSIVE BufConcatAll(_)
BufConcatAll(list) ==
    IF list = << >> THEN EmptyBuf
    ELSE BufConcat(Head(list), BufConcatAll(Tail(list)))

\* bytes lo .. hi-1 of buf (clamped to the buffer, like Buffer.slice)
RECURSIVE BufSlice(_, _, _)
BufSlice(buf, lo, hi) ==
    IF buf = << >> \/ hi <= 0 \/ hi <= lo THEN EmptyBuf
    ELSE LET r == Head(buf)
             from == Max(lo, 0)
             take == Min(hi, r.n) - Min(from, r.n)
             rest == BufSlice(Tail(buf), from - Min(from, r.n), hi - Min(hi, r.n))
         IN  IF take > 0
             THEN BufConcat(<<[b |-> r.b, n |-> take]>>, rest)
             ELSE rest

----------------------------------------------------------------------------
(* Base64 strings and Buffer.from(s, 'base64')                             *)

RECURSIVE StrLen(_)
StrLen(s) == IF s = << >> THEN 0 ELSE Head(s).n + StrLen(Tail(s))

\* s.slice(lo, hi) for 0 <= lo
RECURSIVE StrSlice(_, _, _)
StrSlice(s, lo, hi) ==
    IF s = << >> \/ hi <= 0 \/ hi <= lo THEN << >>
    ELSE LET r == Head(s)
             from == Max(lo, 0)
             take == Min(hi, r.n) - Min(from, r.n)
             rest == StrSlice(Tail(s), from - Min(from, r.n), hi - Min(hi, r.n))
         IN  IF take > 0 THEN <<[c |-> r.c, n |-> take]>> \o rest ELSE rest

\* the three bytes that the four sextets q[1..4] encode
Byte1(q) == q[1] * 4 + q[2] \div 16

Byte2(q) == (q[2] % 16) * 16 + q[3] \div 4

Byte3(q) == (q[3] % 4) * 64 + q[4]

\* the sextets whose four-fold repetition decodes to three equal bytes
Uniform(c) == c \in {0, 21, 42, 63}

\* the bytes of an incomplete last quantum: 2 sextets give 1 byte, 3 give 2
FlushTail(out, carry) ==
    IF Len(carry) = 2 THEN AppendBytes(out, Byte1(carry \o <<0, 0>>), 1)
    ELSE IF Len(carry) = 3
         THEN AppendBytes(AppendBytes(out, Byte1(carry \o <<0>>), 1),
                          Byte2(carry \o <<0>>), 1)
         ELSE out

\* decoding of the runs s with k characters of the first run still to read,
\* carry the sextets of the quantum being read and out the bytes so far.
\* Decoding stops at the first '='; a character outside the alphabet is
\* skipped.  Nothing makes it throw.
RECURSIVE DecodeRuns(_, _, _, _)
DecodeFrom(s, k, carry, out) ==
    IF s = << >> THEN FlushTail(out, carry)
    ELSE IF Head(s).c = Pad THEN FlushTail(out, carry)
    ELSE IF Head(s).c > Pad
         THEN IF Tail(s) = << >> THEN FlushTail(out, carry)
              ELSE DecodeRuns(Tail(s), Head(Tail(s)).n, carry, out)
    ELSE IF k = 0
         THEN IF Tail(s) = << >> THEN FlushTail(out, carry)
              ELSE DecodeRuns(Tail(s), Head(Tail(s)).n, carry, out)
    ELSE LET c == Head(s).c IN
         IF carry = << >> /\ k >= 4 /\ Uniform(c)
         THEN DecodeRuns(s, k % 4, << >>,
                         AppendBytes(out, Byte1(<<c, c, c, c>>), 3 * (k \div 4)))
         ELSE LET q == Append(carry, c) IN
              IF Len(q) = 4
              THEN DecodeRuns(s, k - 1, << >>,
                       AppendBytes(AppendBytes(AppendBytes(out, Byte1(q), 1),
                                               Byte2(q), 1), Byte3(q), 1))
              ELSE DecodeRuns(s, k - 1, q, out)

\* DecodeFrom with its four arguments evaluated once
DecodeRuns(s0, k0, carry0, out0) ==
    CHOOSE r \in { DecodeFrom(s, k, carry, out) :
                     s \in {s0}, k \in {k0}, carry \in {carry0}, out \in {out0} } :
        TRUE

\* Buffer.from(s, 'base64')
Base64Decode(s) ==
    IF s = << >> THEN EmptyBuf ELSE DecodeRuns(s, Head(s).n, << >>, EmptyBuf)

----------------------------------------------------------------------------
(* Inputs of the model                                                     *)

Clients == {"c1", "c2"}

MaxCalls == 3

\* the number of chunks an operation may hold at a time to count as working in
\* memory proportional to the chunk size
HeldChunksLimit == 8

\* a payload of the given size whose two halves differ, so that the order of
\* its pieces matters
Payload(size) ==
    AppendBytes(AppendBytes(EmptyBuf, 1, size \div 2), 2, size - size \div 2)

\* an optional value is << >> (undefined) or <<v>>
None == << >>

Some(v) == <<v>>

IsSome(o) == o # << >>

\* obj?.k of a record: the field, or nothing when the record has none of the name
Field(b, k) == IF k \in DOMAIN b THEN b[k] ELSE None

----------------------------------------------------------------------------
(* The BSON Binary wrapper and the inline codec (FileService)              *)

\* new Binary(buffer)
Binary(buffer) == [buffer |-> buffer, position |-> BufLen(buffer)]

\* FileService.createBinaryData; a size is a fraction [num, den] of bytes,
\* because the size estimated from a base64 length need not be whole
createBinaryData(buffer, contentType, filename) ==
    [data |-> Some(Binary(buffer)), gridFSId |-> None,
     contentType |-> contentType, fileName |-> filename,
     size |-> [num |-> BufLen(buffer), den |-> 1]]

\* FileService.binaryToBuffer: Buffer.from(binary.buffer)
binaryToBuffer(binary) == BufSlice(binary.buffer, 0, BufLen(binary.buffer))

\* { ...base, ...over }
Spread(base, over) ==
    [k \in DOMAIN base \cup DOMAIN over |->
        IF k \in DOMAIN over THEN over[k] ELSE base[k]]

----------------------------------------------------------------------------
(* The GridFS bucket 'patient_files'                                       *)

\* the chunks the upload stream flushes for the bytes buf, numbered from n:
\* full chunks of ChunkSizeBytes, then the remaining partial chunk on end()
RECURSIVE WriteChunks(_, _, _)
WriteChunks(id, buf, n) ==
    IF BufLen(buf) = 0 THEN {}
    ELSE {[files_id |-> id, n |-> n, data |-> BufSlice(buf, 0, ChunkSizeBytes)]}
         \cup WriteChunks(id, BufSlice(buf, ChunkSizeBytes, BufLen(buf)), n + 1)

\* the files document written when the upload stream finishes
FilesDoc(id, buf, options) ==
    [id |-> id, length |-> BufLen(buf), chunkSize |-> ChunkSizeBytes,
     filename |-> options.filename, contentType |-> options.contentType,
     metadata |-> options.metadata]

FsHas(files, id) == \E f \in files : f.id = id

FsFile(files, id) == CHOOSE f \in files : f.id = id

ChunksOf(chunks, id) == {ch \in chunks : ch.files_id = id}

\* the chunks of an object in ascending order of n, concatenated
RECURSIVE ReadChunks(_, _, _, _)
ReadChunks(chunks, id, n, count) ==
    IF n >= count THEN EmptyBuf
    ELSE BufConcat((CHOOSE ch \in chunks : ch.files_id = id /\ ch.n = n).data,
                   ReadChunks(chunks, id, n + 1, count))

\* a download that ends without data when the object does not exist
downloadFileFromGridFS_EmptyWhenMissing(files, chunks, id) ==
    IF ~FsHas(files, id) THEN [ok |-> TRUE, buffer |-> EmptyBuf]
    ELSE [ok |-> TRUE,
          buffer |-> ReadChunks(chunks, id, 0, Cardinality(ChunksOf(chunks, id)))]

\* FileService.downloadFileFromGridFS: the download stream fails when the
\* object does not exist or one of its chunks is missing
downloadFileFromGridFS(files, chunks, id) ==
    IF ~FsHas(files, id) THEN [ok |-> FALSE, buffer |-> EmptyBuf]
    ELSE LET count == Cardinality(ChunksOf(chunks, id)) IN
         IF \E n \in 0 .. count - 1 :
                ~\E ch \in chunks : ch.files_id = id /\ ch.n = n
         THEN [ok |-> FALSE, buffer |-> EmptyBuf]
         ELSE LET buf == ReadChunks(chunks, id, 0, count) IN
              IF BufLen(buf) # FsFile(files, id).length
              THEN [ok |-> FALSE, buffer |-> EmptyBuf]
              ELSE [ok |-> TRUE, buffer |-> buf]

\* FileService.getFileInfo: files[0] || null
getFileInfo(files, id) == IF FsHas(files, id) THEN Some(FsFile(files, id)) ELSE None

----------------------------------------------------------------------------
(* The patients collection: one document per patientId (unique index).     *)
(* A document is [patientId, episodes]; an episode [episodeId, stages]; a  *)
(* stage [id, files]; a file descriptor [fileId, binaryData, fileRef,      *)
(* metadata] with binaryData and fileRef optional.                         *)

Episodes(doc) == doc.episodes

\* filter { 'episodes.episodeId': e }: some episode has that id
HasEpisode(doc, e) ==
    \E i \in DOMAIN doc.episodes : doc.episodes[i].episodeId = e

\* filter { 'episodes.stages.id': s }: some stage of some episode has that id
HasStage(doc, s) ==
    \E i \in DOMAIN doc.episodes :
        \E j \in DOMAIN doc.episodes[i].stages : doc.episodes[i].stages[j].id = s

\* filter { 'episodes.stages.files.fileId': f }: some file of some stage of
\* some episode has that id
HasFile(doc, f) ==
    \E i \in DOMAIN doc.episodes :
        \E j \in DOMAIN doc.episodes[i].stages :
            \E k \in DOMAIN doc.episodes[i].stages[j].files :
                doc.episodes[i].stages[j].files[k].fileId = f

\* an array update operator applied to a files array: [op |-> "push", file]
\* appends the file, [op |-> "pull", fileId] removes every file with the id
ApplyUpdate(files, upd) ==
    IF upd.op = "push" THEN Append(files, upd.file)
    ELSE LET keep(x) == x.fileId # upd.fileId IN SelectSeq(files, keep)

\* 'stages.$[st].files' with the arrayFilter st.id = s: every stage with that
\* id is updated
RECURSIVE UpdateStages(_, _, _)
UpdateStages(stages, s, upd) ==
    IF stages = << >> THEN << >>
    ELSE <<IF Head(stages).id = s
           THEN [id |-> Head(stages).id, files |-> ApplyUpdate(Head(stages).files, upd)]
           ELSE Head(stages)>>
         \o UpdateStages(Tail(stages), s, upd)

\* 'episodes.$[ep]' with the arrayFilter ep.episodeId = e: every episode with
\* that id is updated
RECURSIVE UpdateEpisodes(_, _, _, _)
UpdateEpisodes(episodes, e, s, upd) ==
    IF episodes = << >> THEN << >>
    ELSE <<IF Head(episodes).episodeId = e
           THEN [episodeId |-> Head(episodes).episodeId,
                 stages |-> UpdateStages(Head(episodes).stages, s, upd)]
           ELSE Head(episodes)>>
         \o UpdateEpisodes(Tail(episodes), e, s, upd)

\* the files array of the stage written anew ($set) instead of appended to
PushFile_Overwrite(doc, e, s, file) ==
    [patientId |-> doc.patientId,
     episodes |-> [i \in DOMAIN doc.episodes |->
        [episodeId |-> doc.episodes[i].episodeId,
         stages |-> [j \in DOMAIN doc.episodes[i].stages |->
            [id |-> doc.episodes[i].stages[j].id,
             files |-> IF doc.episodes[i].episodeId = e /\ doc.episodes[i].stages[j].id = s
                       THEN <<file>>
                       ELSE doc.episodes[i].stages[j].files]]]]]

\* { $push: { 'episodes.$[ep].stages.$[st].files': file } }
PushFile(doc, e, s, file) ==
    [patientId |-> doc.patientId,
     episodes |-> UpdateEpisodes(doc.episodes, e, s, [op |-> "push", file |-> file])]

\* a $pull without the arrayFilters: from every stage of every episode
PullFile_Everywhere(doc, e, s, f) ==
    [patientId |-> doc.patientId,
     episodes |-> [i \in DOMAIN doc.episodes |->
        [episodeId |-> doc.episodes[i].episodeId,
         stages |-> [j \in DOMAIN doc.episodes[i].stages |->
            [id |-> doc.episodes[i].stages[j].id,
             files |-> ApplyUpdate(doc.episodes[i].stages[j].files,
                                   [op |-> "pull", fileId |-> f])]]]]]

\* { $pull: { 'episodes.$[ep].stages.$[st].files': { fileId } } }
PullFile(doc, e, s, f) ==
    [patientId |-> doc.patientId,
     episodes |-> UpdateEpisodes(doc.episodes, e, s, [op |-> "pull", fileId |-> f])]

\* patient.episodes.find(ep => ep.episodeId === e): the first one, or undefined
RECURSIVE FindEpisode(_, _)
FindEpisode(episodes, e) ==
    IF episodes = << >> THEN None
    ELSE IF Head(episodes).episodeId = e THEN Some(Head(episodes))
    ELSE FindEpisode(Tail(episodes), e)

\* episode.stages.find(st => st.id === s)
RECURSIVE FindStage(_, _)
FindStage(stages, s) ==
    IF stages = << >> THEN None
    ELSE IF Head(stages).id = s THEN Some(Head(stages))
    ELSE FindStage(Tail(stages), s)

\* stage.files.find(f => f.fileId === fileId)
RECURSIVE FindFile(_, _)
FindFile(files, f) ==
    IF files = << >> THEN None
    ELSE IF Head(files).fileId = f THEN Some(Head(files))
    ELSE FindFile(Tail(files), f)

\* patient.episodes.find(..)?.stages.find(..): optional chaining
StageOf(episode, s) ==
    IF IsSome(episode) THEN FindStage(episode[1].stages, s) ELSE None

FileOf(stage, f) ==
    IF IsSome(stage) THEN FindFile(stage[1].files, f) ELSE None

\* patient.episodes.find(..)?.stages.find(..)?.files.find(..)
ResolveFile(doc, e, s, f) ==
    FileOf(StageOf(FindEpisode(doc.episodes, e), s), f)

FilesOf(stage) ==
    IF IsSome(stage) THEN stage[1].files ELSE << >>

\* the file list of the stage s of the episode e of doc (empty when there is none)
StageFiles(doc, e, s) ==
    FilesOf(StageOf(FindEpisode(doc.episodes, e), s))

----------------------------------------------------------------------------
(* Base64ChunkStream and the base64 helpers of FileService                 *)

\* slices cut without rounding down to whole groups of 4 characters
AlignedChunkSize_Unaligned(chunkSize) == (chunkSize * 4) \div 3

\* Math.floor(Math.floor(chunkSize * 4 / 3) / 4) * 4
AlignedChunkSize(chunkSize) == (((chunkSize * 4) \div 3) \div 4) * 4

\* one _read() at a position before the end: the decoded slice that is pushed
\* and the new position
StreamRead(base64Data, position, chunkSize) ==
    [chunk |-> Base64Decode(StrSlice(base64Data, position,
                                     position + AlignedChunkSize(chunkSize))),
     position |-> position + AlignedChunkSize(chunkSize)]

\* A Readable drops a pushed buffer of length 0 and calls _read() again only
\* from the callbacks it has scheduled already, so that a run of empty pushes
\* makes it stop asking.  Before anything was delivered the StallAtStart-th
\* empty push in a row is the last call.
StallAtStart == 4

\* Once something was delivered, the callbacks pending depend on the consumer
\* and on what was delivered before the run: runs have stopped the stream at
\* their 3rd, 4th, 6th and 7th empty push, and longer ones have been survived.
\* From the StallLaterMin-th empty push of a run on, any can be the last call.
StallLaterMin == 3

\* whether the Readable stops asking after the empties-th empty push in a
\* row: the outcomes there are
Stalls(started, empties) ==
    IF ~started THEN {empties >= StallAtStart}
    ELSE IF empties >= StallLaterMin THEN {TRUE, FALSE}
    ELSE {FALSE}

\* the stream read from position on by a consumer that takes everything: the
\* runs there can be, each with the buffers delivered and whether the stream
\* has ended (pushed null) or has stopped short of it; empties is the current
\* run of empty pushes, out what was delivered so far
RECURSIVE StreamRuns(_, _, _, _, _)
StreamAfter(r, base64Data, chunkSize, empties, out) ==
    IF BufLen(r.chunk) > 0
    THEN StreamRuns(base64Data, r.position, chunkSize, 0, Append(out, r.chunk))
    ELSE UNION { IF stalled
                 THEN {[ended |-> FALSE, chunks |-> out]}
                 ELSE StreamRuns(base64Data, r.position, chunkSize, empties + 1, out) :
                 stalled \in Stalls(out # << >>, empties + 1) }

StreamRuns(base64Data, position, chunkSize, empties, out) ==
    IF position >= StrLen(base64Data) THEN {[ended |-> TRUE, chunks |-> out]}
    ELSE StreamAfter(StreamRead(base64Data, position, chunkSize), base64Data, chunkSize,
                     empties, out)

\* estimatedSize > limit, for estimatedSize = (length * 3) / 4
EstimateAbove(length, limit) == length * 3 > limit * 4

\* estimatedSize < limit
EstimateBelow(length, limit) == length * 3 < limit * 4

\* (base64.length * 3) / 4
EstimatedSize(length) == [num |-> length * 3, den |-> 4]

RECURSIVE DecodeSlices_Unaligned(_, _)
\* slices that are two characters short of whole groups of 4
DecodeSlices_Unaligned(base64Data, i) ==
    IF i >= StrLen(base64Data) THEN << >>
    ELSE <<Base64Decode(StrSlice(base64Data, i, i + DecodeSliceChars - 2))>>
         \o DecodeSlices_Unaligned(base64Data, i + DecodeSliceChars - 2)

\* the slices of base64ToBuffer's loop from offset i on, each decoded
RECURSIVE DecodeSlices(_, _)
DecodeSlices(base64Data, i) ==
    IF i >= StrLen(base64Data) THEN << >>
    ELSE <<Base64Decode(StrSlice(base64Data, i, i + (DecodeSliceChars \div 4) * 4))>>
         \o DecodeSlices(base64Data, i + (DecodeSliceChars \div 4) * 4)

\* FileService.base64ToBuffer
base64ToBuffer(base64Data, maxSize) ==
    IF EstimateAbove(StrLen(base64Data), maxSize)
    THEN [ok |-> FALSE, buffer |-> EmptyBuf]
    ELSE IF EstimateBelow(StrLen(base64Data), DirectDecodeLimit)
         THEN [ok |-> TRUE, buffer |-> Base64Decode(base64Data)]
         ELSE [ok |-> TRUE, buffer |-> BufConcatAll(DecodeSlices(base64Data, 0))]

----------------------------------------------------------------------------
(* The chunk store as one value fs = [files, chunks, next]                 *)

\* FileService.uploadFileToGridFS with a Buffer: write(buffer), end(); the
\* stream's id is a fresh ObjectId
uploadFileToGridFS(fs, buffer, options) ==
    [files |-> fs.files \cup {FilesDoc(fs.next, buffer, options)},
     chunks |-> fs.chunks \cup WriteChunks(fs.next, buffer, 0),
     next |-> fs.next + 1]

\* FileService.uploadFileToGridFS with a Readable that has been run: when the
\* source ended, the upload finishes as with a Buffer and the promise resolves
\* with the id; when the source stopped short of its end, the upload stream
\* has inserted the chunks it could fill, writes no files document, and the
\* promise never settles
UploadRun(fs, run, options) ==
    IF run.ended
    THEN [settled |-> TRUE,
          fs |-> uploadFileToGridFS(fs, BufConcatAll(run.chunks), options)]
    ELSE [settled |-> FALSE,
          fs |-> [fs EXCEPT !.chunks = @ \cup {ch \in WriteChunks(fs.next,
                                                      BufConcatAll(run.chunks), 0) :
                                                  BufLen(ch.data) = ChunkSizeBytes},
                            !.next = @ + 1]]

\* FileService.uploadFromBase64: the Base64ChunkStream piped into the upload
\* stream, which receives the delivered buffers in order; the outcomes there
\* are, one for each run the stream can take
uploadFromBase64(fs, base64Data, options) ==
    { UploadRun(fs, run, options) :
        run \in StreamRuns(base64Data, 0, DefaultStreamChunk, 0, << >>) }

\* FileService.deleteFileFromGridFS: bucket.delete removes the files document
\* and every chunk of the object; it throws when there is no such object, and
\* the error is caught
deleteFileFromGridFS(fs, id) ==
    [fs EXCEPT !.files = {f \in @ : f.id # id},
               !.chunks = {ch \in @ : ch.files_id # id}]

deleteFileFromGridFSResult(fs, id) == FsHas(fs.files, id)

\* FileService.listPatientFiles: bucket.find({ 'metadata.patientId': patientId })
listPatientFiles(fs, patientId) ==
    {f \in fs.files :
        "patientId" \in DOMAIN f.metadata /\ f.metadata.patientId = patientId}

----------------------------------------------------------------------------
(* PatientService                                                          *)

validateFileType_LetsTextThrough(contentType) ==
    contentType \in allowedTypes \cup {"text/plain"}

validateFileType(contentType) == contentType \in allowedTypes

UseGridFS_AtThreshold(buffer) == BufLen(buffer) >= RawThreshold

UseGridFS_Always(buffer) == TRUE

\* fileData.buffer.length > 1 * 1024 * 1024
UseGridFS(buffer) == BufLen(buffer) > RawThreshold

\* the options of the GridFS upload in addFileWithBinary
UploadOptions(patientId, episodeId, stageId, fileData) ==
    [filename |-> fileData.filename,
     contentType |-> fileData.contentType,
     metadata |-> Spread([patientId |-> patientId, episodeId |-> episodeId,
                          stageId |-> stageId, fileId |-> fileData.fileId],
                         fileData.metadata)]

\* newFile of the inline branch
InlineFile(fileData) ==
    [fileId |-> fileData.fileId,
     binaryData |-> Some(createBinaryData(fileData.buffer, fileData.contentType,
                                          fileData.filename)),
     fileRef |-> None,
     metadata |-> Spread([uploadedBy |-> "system"], fileData.metadata)]

\* the descriptor pushed for a file uploaded to GridFS
RefFile(fileData, gridFSId) ==
    [fileId |-> fileData.fileId,
     binaryData |-> None,
     fileRef |-> Some([collection |-> "patient_files", fileId |-> gridFSId]),
     metadata |-> Spread([uploadedBy |-> "system"], fileData.metadata)]

\* the filter { patientId, 'episodes.episodeId', 'episodes.stages.id' }
MatchStage(coll, patientId, episodeId, stageId) ==
    /\ patientId \in DOMAIN coll
    /\ IsSome(coll[patientId])
    /\ HasEpisode(coll[patientId][1], episodeId)
    /\ HasStage(coll[patientId][1], stageId)

\* the same filter with 'episodes.stages.files.fileId'
MatchFile(coll, patientId, episodeId, stageId, fileId) ==
    /\ MatchStage(coll, patientId, episodeId, stageId)
    /\ HasFile(coll[patientId][1], fileId)

\* collection.findOneAndUpdate(filter, { $push }, { arrayFilters,
\* returnDocument: 'after' }): the collection afterwards
PushInto(coll, patientId, episodeId, stageId, file) ==
    IF MatchStage(coll, patientId, episodeId, stageId)
    THEN [coll EXCEPT ![patientId] =
            Some(PushFile(coll[patientId][1], episodeId, stageId, file))]
    ELSE coll

\* and its result: the updated document, or null when no document matches
PushResult(coll, patientId, episodeId, stageId, file) ==
    IF MatchStage(coll, patientId, episodeId, stageId)
    THEN [kind |-> "doc",
          doc |-> PushFile(coll[patientId][1], episodeId, stageId, file)]
    ELSE [kind |-> "null"]

\* collection.updateOne(filter, { $pull }, { arrayFilters }): the collection
\* afterwards
PullFrom(coll, patientId, episodeId, stageId, fileId) ==
    IF MatchStage(coll, patientId, episodeId, stageId)
    THEN [coll EXCEPT ![patientId] =
            Some(PullFile(coll[patientId][1], episodeId, stageId, fileId))]
    ELSE coll

\* an update that reports a modification whatever it found
PullResult_Always(coll, patientId, episodeId, stageId, fileId) == TRUE

\* result.modifiedCount > 0
PullResult(coll, patientId, episodeId, stageId, fileId) ==
    PullFrom(coll, patientId, episodeId, stageId, fileId) # coll

\* PatientService.getFile up to the end of its findOne: null, the inline file
\* (a TypeError when binaryData has no Binary in data), or the GridFS id of
\* the fileRef that is to be downloaded
getFileFound(coll, patientId, episodeId, stageId, fileId) ==
    IF ~MatchFile(coll, patientId, episodeId, stageId, fileId)
    THEN [kind |-> "null"]
    ELSE LET file == ResolveFile(coll[patientId][1], episodeId, stageId, fileId) IN
         IF ~IsSome(file) THEN [kind |-> "null"]
         ELSE IF IsSome(file[1].binaryData)
         THEN IF IsSome(Field(file[1].binaryData[1], "data"))
              THEN [kind |-> "file",
                    buffer |-> binaryToBuffer(file[1].binaryData[1].data[1]),
                    contentType |-> file[1].binaryData[1].contentType,
                    filename |-> file[1].binaryData[1].fileName]
              ELSE [kind |-> "error", msg |-> "TypeError"]
         ELSE IF IsSome(file[1].fileRef)
         THEN [kind |-> "fileRef", id |-> file[1].fileRef[1].fileId]
         ELSE [kind |-> "null"]

\* getFile after downloadFileFromGridFS has given the buffer: getFileInfo, and
\* the result built from fileInfo.contentType and fileInfo.filename
getFileInfoed(buffer, info) ==
    IF ~IsSome(info) THEN [kind |-> "error", msg |-> "TypeError"]
    ELSE [kind |-> "file", buffer |-> buffer,
          contentType |-> info[1].contentType, filename |-> info[1].filename]

\* getFile after its findOne when no other call changes the stores meanwhile
getFileFetched(found, down, info) ==
    IF found.kind # "fileRef" THEN found
    ELSE IF ~down.ok THEN [kind |-> "error", msg |-> "FileNotFound"]
    ELSE getFileInfoed(down.buffer, info)

\* PatientService.getFile on the stores as they are
getFile(coll, fs, patientId, episodeId, stageId, fileId) ==
    LET found == getFileFound(coll, patientId, episodeId, stageId, fileId) IN
    IF found.kind # "fileRef" THEN found
    ELSE getFileFetched(found, downloadFileFromGridFS(fs.files, fs.chunks, found.id),
                        getFileInfo(fs.files, found.id))

\* deleteFile after its findOne: the step that follows, by whether the
\* resolved file has a fileRef ("gridfs": deleteFileFromGridFS, "pull": the
\* updateOne)
AfterFind(hasRef) == IF hasRef THEN "gridfs" ELSE "pull"

----------------------------------------------------------------------------
(* createPatient of src/models/Patient.ts: normalizeEpisodes, then          *)
(* PatientService.createPatient.  A submitted file is [fileId, fileType,   *)
(* binaryData, metadata] with fileType optional and binaryData optional.   *)
(* binaryData is an object, a record whose fields data and base64 are      *)
(* base64 texts and whose fields contentType and fileName are optional     *)
(* strings, or a string, written [string |-> text].  The empty text and    *)
(* the empty string are falsy.                                             *)

\* a string that is there and is not ''
Truthy(o) == IsSome(o) /\ o[1] # ""

\* typeof binary === 'string' ? binary : binary?.base64 || binary?.data
Base64Of(f) ==
    IF ~IsSome(f.binaryData) THEN << >>
    ELSE IF "string" \in DOMAIN f.binaryData[1] THEN f.binaryData[1].string
    ELSE IF Field(f.binaryData[1], "base64") # << >> THEN f.binaryData[1].base64
    ELSE Field(f.binaryData[1], "data")

\* !f.binaryData is false: an object, since a string that gets here is ''
HasBinaryData(f) == IsSome(f.binaryData) /\ "string" \notin DOMAIN f.binaryData[1]

\* binary?.contentType || f.fileType || 'application/octet-stream'
ContentTypeOf(f) ==
    IF IsSome(f.binaryData) /\ Truthy(Field(f.binaryData[1], "contentType"))
    THEN f.binaryData[1].contentType[1]
    ELSE IF Truthy(f.fileType) THEN f.fileType[1] ELSE "application/octet-stream"

\* binary?.fileName || f.fileId || 'file'
FileNameOf(f) ==
    IF IsSome(f.binaryData) /\ Truthy(Field(f.binaryData[1], "fileName"))
    THEN f.binaryData[1].fileName[1]
    ELSE IF f.fileId # "" THEN f.fileId ELSE "file"

\* estimatedSize > maxDirectSize
UseGridFSForBase64(base64) == EstimateAbove(StrLen(base64), MaxDirectSize)

\* the arguments of the uploadFromBase64 call for the file f
UploadRequest(f) ==
    [base64 |-> Base64Of(f),
     options |-> [filename |-> FileNameOf(f), contentType |-> ContentTypeOf(f),
                  metadata |-> [fileId |-> f.fileId,
                                description |-> f.metadata.description]]]

\* the GridFS branch once uploadFromBase64 has returned gridFSId: binaryData
\* becomes the GridFS id and the estimated size
NormalizeLarge(f, gridFSId) ==
    [fileId |-> f.fileId,
     binaryData |-> Some([data |-> None, gridFSId |-> Some(gridFSId),
                          contentType |-> ContentTypeOf(f),
                          fileName |-> FileNameOf(f),
                          size |-> EstimatedSize(StrLen(Base64Of(f)))]),
     fileRef |-> None,
     metadata |-> f.metadata]

\* the Binary branch, dec being the result of base64ToBuffer
NormalizeSmall(f, dec) ==
    [fileId |-> f.fileId,
     binaryData |-> Some(createBinaryData(dec.buffer, ContentTypeOf(f), FileNameOf(f))),
     fileRef |-> None,
     metadata |-> f.metadata]

\* a file without base64 text whose binaryData is an object: files.push(f)
\* with the file as it was submitted
KeptAsSubmitted(f) ==
    [fileId |-> f.fileId, binaryData |-> f.binaryData, fileRef |-> None,
     metadata |-> f.metadata]

\* normalizeEpisodes is run up to the uploadFromBase64 call it has to await
\* next: ids are the GridFS ids its earlier uploadFromBase64 calls returned,
\* in order.  The result says whether it threw (ok), the upload it waits for
\* (need), what it has built and the ids it has not used.

\* one iteration of the loop over st.files, for a file with base64 text
NormalizeFile(f, ids, dec) ==
    IF UseGridFSForBase64(Base64Of(f))
    THEN IF ids = << >>
         THEN [ok |-> TRUE, need |-> Some(UploadRequest(f)), ids |-> ids,
               file |-> KeptAsSubmitted(f)]
         ELSE [ok |-> TRUE, need |-> None, ids |-> Tail(ids),
               file |-> NormalizeLarge(f, Head(ids))]
    ELSE [ok |-> dec.ok, need |-> None, ids |-> ids, file |-> NormalizeSmall(f, dec)]

\* the loop over st.files: a file without base64 text is skipped when it has
\* no binaryData and kept as it is otherwise; a throw ends the whole request
RECURSIVE NormalizeFiles(_, _, _)
FilesAfter(files, out, r) ==
    IF ~r.ok \/ IsSome(r.need)
    THEN [ok |-> r.ok, need |-> r.need, files |-> out, ids |-> r.ids]
    ELSE NormalizeFiles(Tail(files), Append(out, r.file), r.ids)

NormalizeFiles(files, out, ids) ==
    IF files = << >> THEN [ok |-> TRUE, need |-> None, files |-> out, ids |-> ids]
    ELSE IF Base64Of(Head(files)) = << >>
         THEN IF HasBinaryData(Head(files))
              THEN NormalizeFiles(Tail(files), Append(out, KeptAsSubmitted(Head(files))),
                                  ids)
              ELSE NormalizeFiles(Tail(files), out, ids)
         ELSE FilesAfter(files, out,
                  NormalizeFile(Head(files), ids,
                                base64ToBuffer(Base64Of(Head(files)), DefaultMaxSize)))

\* the loop over ep.stages
RECURSIVE NormalizeStages(_, _, _)
StagesAfter(stages, out, r) ==
    IF ~r.ok \/ IsSome(r.need)
    THEN [ok |-> r.ok, need |-> r.need, stages |-> out, ids |-> r.ids]
    ELSE NormalizeStages(Tail(stages),
             Append(out, [id |-> Head(stages).id, files |-> r.files]), r.ids)

NormalizeStages(stages, out, ids) ==
    IF stages = << >> THEN [ok |-> TRUE, need |-> None, stages |-> out, ids |-> ids]
    ELSE StagesAfter(stages, out, NormalizeFiles(Head(stages).files, << >>, ids))

\* normalizeEpisodes: the loop over the episodes
RECURSIVE normalizeEpisodes(_, _, _)
EpisodesAfter(episodes, out, r) ==
    IF ~r.ok \/ IsSome(r.need)
    THEN [ok |-> r.ok, need |-> r.need, episodes |-> out, ids |-> r.ids]
    ELSE normalizeEpisodes(Tail(episodes),
             Append(out, [episodeId |-> Head(episodes).episodeId,
                          stages |-> r.stages]), r.ids)

normalizeEpisodes(episodes, out, ids) ==
    IF episodes = << >> THEN [ok |-> TRUE, need |-> None, episodes |-> out, ids |-> ids]
    ELSE EpisodesAfter(episodes, out, NormalizeStages(Head(episodes).stages, << >>, ids))

\* PatientService.createPatient: insertOne fails on a patientId already in
\* the collection (unique index)
InsertOk(coll, patientId) == ~IsSome(coll[patientId])

InsertOne(coll, patientId, episodes) ==
    [coll EXCEPT ![patientId] = Some([patientId |-> patientId, episodes |-> episodes])]

----------------------------------------------------------------------------
(* State                                                                   *)

VARIABLES
    patients,   \* the patients collection: patientId -> optional document
    fs,         \* the GridFS bucket: [files, chunks, next ObjectId]
    pc,         \* per client: "idle", or the pending step of its call
    call,       \* per client: the arguments of its current or last call
    loc,        \* per client: the locals of the call (gridFSId, resolved file)
                \* and the store operations it has performed, in order
    ret,        \* per client: what its last call returned or threw
    calls       \* per client: the number of calls it has started

vars == <<patients, fs, pc, call, loc, ret, calls>>

PatientIds == {"P1", "P2"}

\* the patientId of a document that has none: the unique index on patientId
\* holds it as one more key
Undefined == "undefined"

PatientKeys == PatientIds \cup {Undefined}

EpisodeIds == {"E1", "E2"}

StageIds == {"S1", "S2"}

FileIds == {"F1", "F2"}

NoLocals == [gridFSId |-> None, file |-> None, done |-> << >>]

NoReturn == [kind |-> "none"]

RECURSIVE Sum(_, _)
Sum(f, S) == IF S = {} THEN 0 ELSE LET x == CHOOSE x \in S : TRUE IN f[x] + Sum(f, S \ {x})

Init ==
    /\ patients = [p \in PatientKeys |-> None]
    /\ fs = [files |-> {}, chunks |-> {}, next |-> 1]
    /\ pc = [c \in Clients |-> "idle"]
    /\ call = [c \in Clients |-> [op |-> "none"]]
    /\ loc = [c \in Clients |-> NoLocals]
    /\ ret = [c \in Clients |-> NoReturn]
    /\ calls = [c \in Clients |-> 0]

\* a client starts a call
Begin(c, theCall) ==
    /\ pc[c] = "idle"
    /\ Sum(calls, Clients) < MaxCalls
    /\ calls' = [calls EXCEPT ![c] = @ + 1]
    /\ call' = [call EXCEPT ![c] = theCall]

\* the call of client c ends with the result r
Return(c, r) ==
    /\ pc' = [pc EXCEPT ![c] = "idle"]
    /\ ret' = [ret EXCEPT ![c] = r]

----------------------------------------------------------------------------
(* Actions                                                                 *)

\* POST /patients: the request body has been read
CreatePatient(c, payload) ==
    /\ Begin(c, [op |-> "createPatient", payload |-> payload])
    /\ pc' = [pc EXCEPT ![c] = "normalize"]
    /\ loc' = [loc EXCEPT ![c] = [gridFSId |-> None, file |-> None, done |-> << >>,
                                  ids |-> << >>]]
    /\ UNCHANGED <<patients, fs, ret>>

\* the uploadFromBase64 call normalizeEpisodes waits for has given u: the id
\* is kept and normalizeEpisodes goes on, or the promise stays pending and
\* with it the request
Uploaded(c, u) ==
    /\ fs' = u.fs
    /\ IF u.settled
       THEN /\ loc' = [loc EXCEPT ![c].ids = Append(@, fs.next),
                                  ![c].done = Append(@, "gridfs.upload")]
            /\ UNCHANGED pc
       ELSE /\ loc' = [loc EXCEPT ![c].done = Append(@, "gridfs.upload.pending")]
            /\ pc' = [pc EXCEPT ![c] = "pending"]

\* normalizeEpisodes has got to r: the upload of the large file it waits for
UploadNeeded(c, r) ==
    /\ r.ok
    /\ IsSome(r.need)
    /\ \E u \in uploadFromBase64(fs, r.need[1].base64, r.need[1].options) :
          Uploaded(c, u)

\* POST /patients: one uploadFromBase64 of normalizeEpisodes
CreateUpload(c) ==
    /\ pc[c] = "normalize"
    /\ UploadNeeded(c, normalizeEpisodes(call[c].payload.episodes, << >>, loc[c].ids))
    /\ UNCHANGED <<patients, call, ret, calls>>

\* normalizeEpisodes has ended with r: the throw, or the insertOne of
\* PatientService.createPatient
Created(c, payload, r) ==
    /\ ~IsSome(r.need)
    /\ IF ~r.ok
       THEN /\ Return(c, [kind |-> "error", msg |-> "Failed to process file"])
            /\ UNCHANGED <<patients, loc>>
       ELSE IF ~InsertOk(patients, payload.patientId)
       THEN /\ Return(c, [kind |-> "error", msg |-> "E11000 duplicate key"])
            /\ loc' = [loc EXCEPT ![c].done = Append(@, "insertOne.failed")]
            /\ UNCHANGED patients
       ELSE /\ patients' = InsertOne(patients, payload.patientId, r.episodes)
            /\ loc' = [loc EXCEPT ![c].done = Append(@, "insertOne")]
            /\ Return(c, [kind |-> "doc",
                          doc |-> [patientId |-> payload.patientId,
                                   episodes |-> r.episodes]])

\* POST /patients: the end of normalizeEpisodes and the insertOne
CreateInsert(c) ==
    /\ pc[c] = "normalize"
    /\ Created(c, call[c].payload,
               normalizeEpisodes(call[c].payload.episodes, << >>, loc[c].ids))
    /\ UNCHANGED <<fs, call, calls>>

\* createPatient of src/controllers/PatientController.ts, the handler of the
\* route: the patient is inserted with episodes: []
CreatePatientForm(c, patientId) ==
    /\ Begin(c, [op |-> "createPatientForm", patientId |-> patientId])
    /\ IF ~InsertOk(patients, patientId)
       THEN /\ Return(c, [kind |-> "error", msg |-> "E11000 duplicate key"])
            /\ loc' = [loc EXCEPT ![c] = [NoLocals EXCEPT !.done = <<"insertOne.failed">>]]
            /\ UNCHANGED patients
       ELSE /\ patients' = InsertOne(patients, patientId, << >>)
            /\ loc' = [loc EXCEPT ![c] = [NoLocals EXCEPT !.done = <<"insertOne">>]]
            /\ Return(c, [kind |-> "doc",
                          doc |-> [patientId |-> patientId, episodes |-> << >>]])
    /\ UNCHANGED fs

\* addFileWithBinary up to its first store operation: the validation, then
\* either the inline branch (createBinaryData and the $push, then return) or
\* the upload to GridFS
AddFile(c, patientId, episodeId, stageId, fileData) ==
    /\ Begin(c, [op |-> "addFile", patientId |-> patientId, episodeId |-> episodeId,
                 stageId |-> stageId, fileData |-> fileData])
    /\ IF ~validateFileType(fileData.contentType)
       THEN /\ Return(c, [kind |-> "error", msg |-> "Invalid file type"])
            /\ loc' = [loc EXCEPT ![c] = NoLocals]
            /\ UNCHANGED <<patients, fs>>
       ELSE IF UseGridFS(fileData.buffer)
       THEN /\ fs' = uploadFileToGridFS(fs, fileData.buffer,
                        UploadOptions(patientId, episodeId, stageId, fileData))
            /\ loc' = [loc EXCEPT ![c] = [gridFSId |-> Some(fs.next), file |-> None,
                                          done |-> <<"gridfs.upload">>]]
            /\ pc' = [pc EXCEPT ![c] = "attach"]
            /\ UNCHANGED <<patients, ret>>
       ELSE /\ patients' = PushInto(patients, patientId, episodeId, stageId,
                                    InlineFile(fileData))
            /\ loc' = [loc EXCEPT ![c] = [NoLocals EXCEPT !.done = <<"findOneAndUpdate">>]]
            /\ Return(c, PushResult(patients, patientId, episodeId, stageId,
                                    InlineFile(fileData)))
            /\ UNCHANGED fs

\* addFileWithBinary after the upload: the $push of the file reference
AddAttach(c) ==
    /\ pc[c] = "attach"
    /\ LET a == call[c]
           file == RefFile(a.fileData, loc[c].gridFSId[1])
       IN  /\ patients' = PushInto(patients, a.patientId, a.episodeId, a.stageId, file)
           /\ Return(c, PushResult(patients, a.patientId, a.episodeId, a.stageId, file))
    /\ loc' = [loc EXCEPT ![c].done = Append(@, "findOneAndUpdate")]
    /\ UNCHANGED <<fs, call, calls>>

\* the direct uploadFromBase64 call has given u: the id of the stored object,
\* or a promise that stays pending
UploadedDirect(c, u) ==
    /\ fs' = u.fs
    /\ IF u.settled
       THEN /\ loc' = [loc EXCEPT ![c] = [gridFSId |-> Some(fs.next), file |-> None,
                                          done |-> <<"gridfs.upload">>]]
            /\ Return(c, [kind |-> "id", id |-> fs.next])
       ELSE /\ loc' = [loc EXCEPT ![c] = [gridFSId |-> Some(fs.next), file |-> None,
                                          done |-> <<"gridfs.upload.pending">>]]
            /\ pc' = [pc EXCEPT ![c] = "pending"]
            /\ UNCHANGED ret

\* a direct call of FileService.uploadFromBase64 (as normalizeEpisodes makes
\* it), returning the id of the stored object
UploadBase64(c, base64Data) ==
    /\ Begin(c, [op |-> "uploadFromBase64", base64Data |-> base64Data])
    /\ \E u \in uploadFromBase64(fs, base64Data,
                    [filename |-> "file", contentType |-> "application/octet-stream",
                     metadata |-> [fileId |-> "file", description |-> "d"]]) :
          UploadedDirect(c, u)
    /\ UNCHANGED patients

\* getFile after its findOne has given found
Found(c, found) ==
    IF found.kind = "fileRef"
    THEN /\ loc' = [loc EXCEPT ![c] = [gridFSId |-> Some(found.id), file |-> None,
                                       done |-> <<"findOne">>]]
         /\ pc' = [pc EXCEPT ![c] = "download"]
         /\ UNCHANGED ret
    ELSE /\ loc' = [loc EXCEPT ![c] = [NoLocals EXCEPT !.done = <<"findOne">>]]
         /\ Return(c, found)

\* getFile up to the end of its findOne
GetFile(c, patientId, episodeId, stageId, fileId) ==
    /\ Begin(c, [op |-> "getFile", patientId |-> patientId, episodeId |-> episodeId,
                 stageId |-> stageId, fileId |-> fileId])
    /\ Found(c, getFileFound(patients, patientId, episodeId, stageId, fileId))
    /\ UNCHANGED <<patients, fs>>

\* getFile after downloadFileFromGridFS has given down
Downloaded(c, down) ==
    IF ~down.ok
    THEN /\ loc' = [loc EXCEPT ![c].done = Append(@, "gridfs.download.failed")]
         /\ Return(c, [kind |-> "error", msg |-> "FileNotFound"])
    ELSE /\ loc' = [loc EXCEPT ![c] = [gridFSId |-> loc[c].gridFSId, file |-> None,
                                       done |-> Append(loc[c].done, "gridfs.download"),
                                       buffer |-> down.buffer]]
         /\ pc' = [pc EXCEPT ![c] = "info"]
         /\ UNCHANGED ret

\* getFile: downloadFileFromGridFS(file.fileRef.fileId)
GetDownload(c) ==
    /\ pc[c] = "download"
    /\ Downloaded(c, downloadFileFromGridFS(fs.files, fs.chunks, loc[c].gridFSId[1]))
    /\ UNCHANGED <<patients, fs, call, calls>>

\* getFile: getFileInfo(file.fileRef.fileId) and the return
GetInfo(c) ==
    /\ pc[c] = "info"
    /\ Return(c, getFileInfoed(loc[c].buffer, getFileInfo(fs.files, loc[c].gridFSId[1])))
    /\ loc' = [loc EXCEPT ![c].done = Append(@, "gridfs.find")]
    /\ UNCHANGED <<patients, fs, call, calls>>

\* deleteFile up to the end of its findOne
DeleteFile(c, patientId, episodeId, stageId, fileId) ==
    /\ Begin(c, [op |-> "deleteFile", patientId |-> patientId, episodeId |-> episodeId,
                 stageId |-> stageId, fileId |-> fileId])
    /\ IF ~MatchFile(patients, patientId, episodeId, stageId, fileId)
       THEN /\ Return(c, [kind |-> "bool", val |-> FALSE])
            /\ loc' = [loc EXCEPT ![c] = [NoLocals EXCEPT !.done = <<"findOne">>]]
       ELSE LET file == ResolveFile(patients[patientId][1], episodeId, stageId, fileId) IN
            /\ loc' = [loc EXCEPT ![c] = [gridFSId |-> None, file |-> file,
                                          done |-> <<"findOne">>]]
            /\ pc' = [pc EXCEPT ![c] =
                        AfterFind(IsSome(file) /\ IsSome(file[1].fileRef))]
            /\ UNCHANGED ret
    /\ UNCHANGED <<patients, fs>>

\* deleteFile: deleteFileFromGridFS(file.fileRef.fileId); its boolean result
\* is dropped by deleteFile and only kept in the trace of the call
DeleteGridFS(c) ==
    /\ pc[c] = "gridfs"
    /\ fs' = deleteFileFromGridFS(fs, loc[c].file[1].fileRef[1].fileId)
    /\ loc' = [loc EXCEPT ![c].done =
                 Append(@, IF deleteFileFromGridFSResult(fs, loc[c].file[1].fileRef[1].fileId)
                           THEN "gridfs.delete" ELSE "gridfs.delete.failed")]
    /\ pc' = [pc EXCEPT ![c] = "pull"]
    /\ UNCHANGED <<patients, call, ret, calls>>

\* deleteFile: the $pull and the return of modifiedCount > 0
DeletePull(c) ==
    /\ pc[c] = "pull"
    /\ LET a == call[c] IN
       /\ patients' = PullFrom(patients, a.patientId, a.episodeId, a.stageId, a.fileId)
       /\ loc' = [loc EXCEPT ![c].done = Append(@, "updateOne")]
       /\ Return(c, [kind |-> "bool",
                     val |-> PullResult(patients, a.patientId, a.episodeId,
                                        a.stageId, a.fileId)])
    /\ UNCHANGED <<fs, call, calls>>

----------------------------------------------------------------------------
(* The requests of the model.  The one patient that is created has the     *)
(* episodes E1 (stage S1) and E2 (stage S2); E3, S3 and P2 never exist.    *)

Coords ==
    { <<"P1", "E1", "S1">>, <<"P1", "E2", "S2">>,    \* existing stages
      <<"P1", "E1", "S2">>,                          \* S2 is a stage of E2
      <<"P1", "E3", "S1">>, <<"P1", "E1", "S3">>,    \* no such episode, stage
      <<"P2", "E1", "S1">> }                         \* no such patient

Buffers == {Payload(10), Payload(RawThreshold), Payload(RawThreshold + 1)}

ContentTypes == {"image/png", "text/plain"}

FileDatas ==
    [buffer : Buffers, filename : {"scan.png"}, contentType : ContentTypes,
     fileId : FileIds, metadata : {[description |-> "d"]}]

\* "QUJD", the base64 text of the bytes 65 66 67
SmallBase64 == <<[c |-> 16, n |-> 1], [c |-> 20, n |-> 1], [c |-> 9, n |-> 1],
                 [c |-> 3, n |-> 1]>>

SubmittedFile(fileId, base64) ==
    [fileId |-> fileId, fileType |-> None,
     binaryData |-> Some([data |-> base64, contentType |-> Some("image/png"),
                          fileName |-> Some("scan.png")]),
     metadata |-> [description |-> "d"]]

\* the body of POST /patients for patient P1 with the given files in E1/S1
Submitted(files) ==
    [patientId |-> "P1",
     episodes |-> <<[episodeId |-> "E1", stages |-> <<[id |-> "S1", files |-> files]>>],
                    [episodeId |-> "E2", stages |-> <<[id |-> "S2", files |-> << >>]>>]>>]

Payloads == {Submitted(<< >>), Submitted(<<SubmittedFile("F1", SmallBase64)>>)}

\* one client at a time: every call runs to its end before the next starts
Next ==
    \E c \in {"c1"} :
        \/ \E payload \in Payloads : CreatePatient(c, payload)
        \/ CreateInsert(c)
        \/ \E at \in Coords, fileData \in FileDatas :
              AddFile(c, at[1], at[2], at[3], fileData)
        \/ AddAttach(c)
        \/ \E at \in Coords, f \in FileIds : GetFile(c, at[1], at[2], at[3], f)
        \/ GetDownload(c)
        \/ GetInfo(c)
        \/ \E at \in Coords, f \in FileIds : DeleteFile(c, at[1], at[2], at[3], f)
        \/ DeleteGridFS(c)
        \/ DeletePull(c)

Spec == Init /\ [][Next]_vars

----------------------------------------------------------------------------
(* The base64 ingestion requests: the same patient, submitted with one     *)
(* base64 file, and direct calls of uploadFromBase64.                      *)

\* the ends of a base64 text: "QUJD", "QUI=", "QQ==", and the unpadded "QUI", "QQ"
Tails ==
    { SmallBase64,
      <<[c |-> 16, n |-> 1], [c |-> 20, n |-> 1], [c |-> 8, n |-> 1], [c |-> Pad, n |-> 1]>>,
      <<[c |-> 16, n |-> 2], [c |-> Pad, n |-> 2]>>,
      <<[c |-> 16, n |-> 1], [c |-> 20, n |-> 1], [c |-> 8, n |-> 1]>>,
      <<[c |-> 16, n |-> 2]>> }

\* n times 'A', then the tail
Text(n, tail) == IF n = 0 THEN tail ELSE <<[c |-> 0, n |-> n]>> \o tail

\* texts shorter than, as long as and longer than the slices of the default
\* Base64ChunkStream
Base64Texts ==
    { Text(n, tail) :
        n \in {0, AlignedChunkSize(DefaultStreamChunk) - 4,
               AlignedChunkSize(DefaultStreamChunk),
               2 * AlignedChunkSize(DefaultStreamChunk) + 8},
        tail \in Tails }

\* the least length whose estimate is above maxDirectSize
FirstAbove == (MaxDirectSize * 4) \div 3 + 1

\* "QUJD" behind as many whole slices of '=' as make the estimate exceed
\* maxDirectSize
PaddedLarge ==
    <<[c |-> Pad,
       n |-> (FirstAbove \div AlignedChunkSize(DefaultStreamChunk) + 1)
                * AlignedChunkSize(DefaultStreamChunk)]>> \o SmallBase64

\* a text of FirstAbove + 2 characters with slices of '=' behind its first
\* slice of data: two more of them than the stream is sure to get over
PaddedMidway ==
    Text(AlignedChunkSize(DefaultStreamChunk),
         <<[c |-> Pad, n |-> (StallLaterMin + 2) * AlignedChunkSize(DefaultStreamChunk)]>>
             \o SmallBase64
             \o Text(FirstAbove + 2
                        - (StallLaterMin + 3) * AlignedChunkSize(DefaultStreamChunk) - 4,
                     << >>))

\* texts of lengths around it: FirstAbove - 2 and - 1 (inline), FirstAbove
\* (to GridFS), and FirstAbove + 2 ending in "QQ==", whose estimate is above
\* the limit while it decodes to exactly maxDirectSize bytes; the empty text,
\* PaddedLarge and PaddedMidway
IngestTexts ==
    { << >>,
      SmallBase64,
      PaddedLarge,
      PaddedMidway,
      Text(FirstAbove - 6, SmallBase64),
      Text(FirstAbove - 4, <<[c |-> 16, n |-> 1], [c |-> 20, n |-> 1], [c |-> 8, n |-> 1]>>),
      Text(FirstAbove - 4, SmallBase64),
      Text(FirstAbove - 2, <<[c |-> 16, n |-> 2], [c |-> Pad, n |-> 2]>>) }

IngestPayloads ==
    {Submitted(<< >>)} \cup {Submitted(<<SubmittedFile(f, t)>>) : f \in {"F1"}, t \in IngestTexts}

NextIngest ==
    \E c \in {"c1"} :
        \/ \E payload \in IngestPayloads : CreatePatient(c, payload)
        \/ CreateUpload(c)
        \/ CreateInsert(c)
        \/ \E base64Data \in Base64Texts : UploadBase64(c, base64Data)
        \/ \E f \in FileIds : GetFile(c, "P1", "E1", "S1", f)

SpecIngest == Init /\ [][NextIngest]_vars

----------------------------------------------------------------------------
(* Attachments, deletions, listings and faults: patient P1 has been        *)
(* created with its two empty stages; files are attached to them, listed   *)
(* and deleted, and the process may stop in the middle of a call.          *)

\* the collection after POST /patients with the body Submitted(<< >>)
SeededPatients ==
    InsertOne([p \in PatientKeys |-> None], "P1",
              normalizeEpisodes(Submitted(<< >>).episodes, << >>, << >>).episodes)

InitSeeded ==
    /\ patients = SeededPatients
    /\ fs = [files |-> {}, chunks |-> {}, next |-> 1]
    /\ pc = [c \in Clients |-> "idle"]
    /\ call = [c \in Clients |-> [op |-> "none"]]
    /\ loc = [c \in Clients |-> NoLocals]
    /\ ret = [c \in Clients |-> NoReturn]
    /\ calls = [c \in Clients |-> 0]

\* the number of chunks an upload of the buffer writes
ChunkCount(buffer) == (BufLen(buffer) + ChunkSizeBytes - 1) \div ChunkSizeBytes

\* the failure of an upload is forwarded as if it had finished
AfterUpload_Ignore(finished) == "attach"

\* uploadFileToGridFS settles: 'finish' resolves the promise with the id and
\* addFileWithBinary goes on to attach, 'error' rejects it and the await in
\* addFileWithBinary throws
AfterUpload(finished) == IF finished THEN "attach" ELSE "throw"

\* addFileWithBinary of a payload above the threshold whose upload fails when
\* the first `flushed` chunks have been inserted: the upload stream has no
\* rollback, and the files document is only written on finish
AddFileUploadFails(c, patientId, episodeId, stageId, fileData, flushed) ==
    /\ Begin(c, [op |-> "addFile", patientId |-> patientId, episodeId |-> episodeId,
                 stageId |-> stageId, fileData |-> fileData])
    /\ validateFileType(fileData.contentType)
    /\ UseGridFS(fileData.buffer)
    /\ flushed < ChunkCount(fileData.buffer)
    /\ fs' = [fs EXCEPT !.chunks = @ \cup {ch \in WriteChunks(fs.next, fileData.buffer, 0) :
                                              ch.n < flushed},
                        !.next = @ + 1]
    /\ loc' = [loc EXCEPT ![c] = [gridFSId |-> Some(fs.next), file |-> None,
                                  done |-> <<"gridfs.upload.failed">>]]
    /\ IF AfterUpload(FALSE) = "throw"
       THEN Return(c, [kind |-> "error", msg |-> "upload failed"])
       ELSE pc' = [pc EXCEPT ![c] = AfterUpload(FALSE)] /\ UNCHANGED ret
    /\ UNCHANGED patients

\* PatientService.listPatientFiles
ListFiles(c, patientId) ==
    /\ Begin(c, [op |-> "listPatientFiles", patientId |-> patientId])
    /\ Return(c, [kind |-> "list", files |-> listPatientFiles(fs, patientId)])
    /\ loc' = [loc EXCEPT ![c] = [NoLocals EXCEPT !.done = <<"gridfs.find">>]]
    /\ UNCHANGED <<patients, fs>>

\* the process stops while the call of client c is between two of its store
\* operations; what the stores hold stays as it is
Crash(c) ==
    /\ pc[c] # "idle"
    /\ Return(c, [kind |-> "crashed"])
    /\ UNCHANGED <<patients, fs, call, loc, calls>>

ExistingCoords == { <<"P1", "E1", "S1">>, <<"P1", "E2", "S2">> }

ValidFileDatas ==
    [buffer : {Payload(10), Payload(RawThreshold + 1)}, filename : {"scan.png"},
     contentType : {"image/png"}, fileId : FileIds,
     metadata : {[description |-> "d"]}]

\* a body with one file in E1/S1 whose text goes to the chunk store
LargePayloads == {Submitted(<<SubmittedFile("F1", Text(FirstAbove - 4, SmallBase64))>>)}

NextCrash ==
    \E c \in {"c1"} :
        \/ \E payload \in LargePayloads : CreatePatient(c, payload)
        \/ CreateUpload(c)
        \/ CreateInsert(c)
        \/ \E at \in ExistingCoords, fileData \in ValidFileDatas :
              AddFile(c, at[1], at[2], at[3], fileData)
        \/ AddAttach(c)
        \/ \E at \in ExistingCoords, f \in FileIds :
              DeleteFile(c, at[1], at[2], at[3], f)
        \/ DeleteGridFS(c)
        \/ DeletePull(c)
        \/ Crash(c)
        \/ \E p \in PatientIds : ListFiles(c, p)
        \/ \E at \in ExistingCoords, fileData \in ValidFileDatas, flushed \in 0 .. 4 :
              AddFileUploadFails(c, at[1], at[2], at[3], fileData, flushed)
        \/ \E at \in ExistingCoords, f \in FileIds : GetFile(c, at[1], at[2], at[3], f)
        \/ GetDownload(c)
        \/ GetInfo(c)

SpecCrash == InitSeeded /\ [][NextCrash]_vars

----------------------------------------------------------------------------
(* Concurrent uploads: two clients attach files to the stages of patient   *)
(* P1, their store operations interleaved in every order.                  *)

NextConcurrent ==
    \E c \in Clients :
        \/ \E at \in ExistingCoords, fileData \in ValidFileDatas :
              AddFile(c, at[1], at[2], at[3], fileData)
        \/ AddAttach(c)

SpecConcurrent == InitSeeded /\ [][NextConcurrent]_vars

----------------------------------------------------------------------------
(* Base64 submissions of several content types                             *)

TypedFile(fileId, base64, contentType) ==
    [fileId |-> fileId, fileType |-> None,
     binaryData |-> Some([data |-> base64, contentType |-> Some(contentType),
                          fileName |-> Some("notes.txt")]),
     metadata |-> [description |-> "d"]]

\* a file in the other forms a body can give it: binaryData is the fields
\* given, fileId may be ''
OtherFile(fileId, binaryData) ==
    [fileId |-> fileId, fileType |-> None, binaryData |-> Some(binaryData),
     metadata |-> [description |-> "d"]]

\* the text as binaryData itself and as binaryData.base64, each small and
\* large and without a file name under the fileId '', and a binaryData whose
\* data is ''
OtherFiles ==
    { OtherFile("", b) :
        b \in UNION { { [string |-> t], [base64 |-> t] } :
                        t \in {SmallBase64, Text(FirstAbove - 4, SmallBase64)} } }
    \cup { OtherFile("F1", [data |-> << >>, contentType |-> Some("image/png"),
                            fileName |-> Some("scan.png")]) }

\* the body of a request that is not JSON: {}
EmptyBody == [patientId |-> Undefined, episodes |-> << >>]

\* bodies with one file in E1/S1: a small and a large text, each as a PNG and
\* as plain text, the files in other forms, and the empty body
TypedPayloads ==
    { Submitted(<<TypedFile(f, t, ct)>>) :
        f \in FileIds, t \in {SmallBase64, Text(FirstAbove - 4, SmallBase64)},
        ct \in ContentTypes }
    \cup { Submitted(<<f>>) : f \in OtherFiles }
    \cup { EmptyBody }

NextTyped ==
    \E c \in {"c1"} :
        \/ \E payload \in TypedPayloads : CreatePatient(c, payload)
        \/ CreateUpload(c)
        \/ CreateInsert(c)
        \/ \E p \in PatientIds : CreatePatientForm(c, p)
        \/ \E f \in FileIds : GetFile(c, "P1", "E1", "S1", f)

SpecTyped == Init /\ [][NextTyped]_vars

----------------------------------------------------------------------------
(* Uploads of malformed base64 texts                                       *)

\* "QU*D", "QQ==QUJD", a text of one whole slice followed by each of them,
\* "QUJD" behind slices of '=' alone, as many as make the stream stop and one
\* less, and "QUJD" behind a slice of data and slices of '=', two more of
\* them than the stream is sure to get over
MalformedTexts ==
    { <<[c |-> 16, n |-> 1], [c |-> 20, n |-> 1], [c |-> Bad, n |-> 1], [c |-> 3, n |-> 1]>>,
      <<[c |-> 16, n |-> 2], [c |-> Pad, n |-> 2]>> \o SmallBase64,
      Text(AlignedChunkSize(DefaultStreamChunk),
           <<[c |-> 16, n |-> 1], [c |-> 20, n |-> 1], [c |-> Bad, n |-> 1],
             [c |-> 3, n |-> 1]>>),
      Text(AlignedChunkSize(DefaultStreamChunk),
           <<[c |-> 16, n |-> 2], [c |-> Pad, n |-> 2]>> \o SmallBase64),
      <<[c |-> Pad, n |-> StallAtStart * AlignedChunkSize(DefaultStreamChunk)]>>
          \o SmallBase64,
      <<[c |-> Pad, n |-> (StallAtStart - 1) * AlignedChunkSize(DefaultStreamChunk)]>>
          \o SmallBase64,
      Text(AlignedChunkSize(DefaultStreamChunk),
           <<[c |-> Pad, n |-> (StallLaterMin + 2) * AlignedChunkSize(DefaultStreamChunk)]>>
               \o SmallBase64) }

NextMalformed ==
    \E c \in {"c1"} :
        \E base64Data \in MalformedTexts \cup {SmallBase64} : UploadBase64(c, base64Data)

SpecMalformed == Init /\ [][NextMalformed]_vars

----------------------------------------------------------------------------
(* Memory held by a download                                               *)

\* FileService.downloadFileFromGridFS: the bytes in its `chunks` array after
\* the 'data' events of the chunks 0 .. n - 1; the array is only released
\* when 'end' has concatenated all of it
DownloadHeld(chunks, id, n) == BufLen(ReadChunks(chunks, id, 0, n))

\* files above the inline threshold: the smallest one, and one that is a chunk
\* longer than HeldChunksLimit chunks
LargeFileDatas ==
    [buffer : {Payload(RawThreshold + 1),
               Payload((HeldChunksLimit + 1) * ChunkSizeBytes)},
     filename : {"scan.png"}, contentType : {"image/png"}, fileId : FileIds,
     metadata : {[description |-> "d"]}]

NextDownload ==
    \E c \in {"c1"} :
        \/ \E at \in ExistingCoords, fileData \in LargeFileDatas :
              AddFile(c, at[1], at[2], at[3], fileData)
        \/ AddAttach(c)
        \/ \E at \in ExistingCoords, f \in FileIds : GetFile(c, at[1], at[2], at[3], f)
        \/ GetDownload(c)
        \/ GetInfo(c)

SpecDownload == InitSeeded /\ [][NextDownload]_vars

----------------------------------------------------------------------------
(* Base64ChunkStream read by read: a consumer constructs the stream and     *)
(* takes what it delivers.  The locals of the call are the stream's         *)
(* position, the slice [lo, hi) of the text each _read() has decoded with   *)
(* the number of bytes it gave, the buffers delivered, the current run of   *)
(* empty pushes, and whether the Readable has stopped asking.               *)

\* new Base64ChunkStream(base64Data, chunkSize), piped or given a 'data'
\* listener
OpenStream(c, base64Data, chunkSize) ==
    /\ Begin(c, [op |-> "stream", base64Data |-> base64Data, chunkSize |-> chunkSize])
    /\ loc' = [loc EXCEPT ![c] = [gridFSId |-> None, file |-> None, done |-> << >>,
                                  position |-> 0, pushed |-> << >>, slices |-> << >>,
                                  empties |-> 0, stalled |-> FALSE]]
    /\ pc' = [pc EXCEPT ![c] = "reading"]
    /\ UNCHANGED <<patients, fs, ret>>

\* the locals after a _read() at pos has pushed r.chunk: a Readable drops a
\* pushed buffer of length 0, so that nothing is delivered for it, and
\* stalled says whether that call was the last one
AfterPush(l, pos, len, r, stalled) ==
    IF BufLen(r.chunk) = 0
    THEN [l EXCEPT !.position = r.position,
                   !.slices = Append(@, [lo |-> pos, hi |-> Min(r.position, len),
                                         size |-> 0]),
                   !.empties = @ + 1,
                   !.stalled = stalled]
    ELSE [l EXCEPT !.position = r.position,
                   !.pushed = Append(@, r.chunk),
                   !.slices = Append(@, [lo |-> pos, hi |-> Min(r.position, len),
                                         size |-> BufLen(r.chunk)]),
                   !.empties = 0]

\* one _read(), which the Readable calls as long as it has not stopped asking:
\* push(null) at the end of the text, otherwise the decoded slice is pushed
\* and the position moves by the aligned slice length
ReadStream(c) ==
    /\ pc[c] = "reading"
    /\ ~loc[c].stalled
    /\ IF loc[c].position >= StrLen(call[c].base64Data)
       THEN /\ Return(c, [kind |-> "end"])
            /\ UNCHANGED loc
       ELSE /\ \E r \in {StreamRead(call[c].base64Data, loc[c].position,
                                    call[c].chunkSize)} :
                \E stalled \in Stalls(loc[c].pushed # << >>, loc[c].empties + 1) :
                  loc' = [loc EXCEPT ![c] =
                            AfterPush(@, loc[c].position, StrLen(call[c].base64Data), r,
                                      stalled)]
            /\ UNCHANGED <<pc, ret>>
    /\ UNCHANGED <<patients, fs, call, calls>>

\* n times "====", slices that decode to no byte
Pads(n) == <<[c |-> Pad, n |-> 4 * n]>>

\* short texts read with chunk sizes of a few bytes, the texts around one and
\* two slices read with the default chunk size, and texts with slices that
\* decode to nothing: in front of any data, behind one and two slices of
\* data, and in two runs; "QQ==QUJD" and "QU*D" with "QUJD" behind it, whose
\* first slice decodes to fewer bytes than a whole one
StreamInputs ==
    { <<Text(n, tail), chunkSize>> :
        n \in {0, 4, 8}, tail \in Tails, chunkSize \in {1, 2, 3, 4, 6, 7} }
    \cup { <<t, DefaultStreamChunk>> : t \in Base64Texts }
    \cup { <<Pads(n) \o SmallBase64, 3>> : n \in StallAtStart - 1 .. StallAtStart }
    \cup { <<SmallBase64 \o Pads(n) \o SmallBase64, 3>> :
             n \in StallLaterMin - 1 .. StallLaterMin + 4 }
    \cup { <<SmallBase64 \o SmallBase64 \o Pads(StallLaterMin + 3) \o SmallBase64, 3>>,
           <<SmallBase64 \o Pads(StallLaterMin + 1) \o SmallBase64
                 \o Pads(StallLaterMin + 1) \o SmallBase64, 3>>,
           <<Pads(1) \o SmallBase64 \o Pads(StallLaterMin) \o SmallBase64
                 \o Pads(StallLaterMin) \o SmallBase64, 3>> }
    \cup { <<<<[c |-> 16, n |-> 2], [c |-> Pad, n |-> 2]>> \o SmallBase64, 3>>,
           <<<<[c |-> 16, n |-> 1], [c |-> 20, n |-> 1], [c |-> Bad, n |-> 1],
               [c |-> 3, n |-> 1]>> \o SmallBase64, 3>> }

NextStream ==
    \E c \in {"c1"} :
        \/ \E in \in StreamInputs : OpenStream(c, in[1], in[2])
        \/ ReadStream(c)

SpecStream == Init /\ [][NextStream]_vars

\* the consumer keeps reading as long as the stream has not ended
SpecStreamLive == SpecStream /\ WF_vars(\E c \in Clients : ReadStream(c))

----------------------------------------------------------------------------
(* Concurrent deletions: one file has been attached to P1/E1/S1, and two    *)
(* clients delete and fetch files of that stage, their store operations     *)
(* interleaved in every order.                                              *)

\* the chunk store after addFileWithBinary of fileData to P1/E1/S1
StoredFs(fileData) ==
    IF UseGridFS(fileData.buffer)
    THEN uploadFileToGridFS([files |-> {}, chunks |-> {}, next |-> 1], fileData.buffer,
                            UploadOptions("P1", "E1", "S1", fileData))
    ELSE [files |-> {}, chunks |-> {}, next |-> 1]

\* the collection after that call
StoredPatients(fileData) ==
    PushInto(SeededPatients, "P1", "E1", "S1",
             IF UseGridFS(fileData.buffer) THEN RefFile(fileData, 1)
             ELSE InlineFile(fileData))

InitStored ==
    /\ \E fileData \in ValidFileDatas :
          /\ patients = StoredPatients(fileData)
          /\ fs = StoredFs(fileData)
    /\ pc = [c \in Clients |-> "idle"]
    /\ call = [c \in Clients |-> [op |-> "none"]]
    /\ loc = [c \in Clients |-> NoLocals]
    /\ ret = [c \in Clients |-> NoReturn]
    /\ calls = [c \in Clients |-> 0]

NextDeletes ==
    \E c \in Clients :
        \/ \E f \in FileIds : DeleteFile(c, "P1", "E1", "S1", f)
        \/ DeleteGridFS(c)
        \/ DeletePull(c)
        \/ \E f \in FileIds : GetFile(c, "P1", "E1", "S1", f)
        \/ GetDownload(c)
        \/ GetInfo(c)

SpecDeletes == InitStored /\ [][NextDeletes]_vars

----------------------------------------------------------------------------
(* Uploads with caller-supplied metadata                                    *)

\* metadata mappings a caller of addFileWithBinary may pass: a description
\* alone, and mappings that have owner keys of their own
CallerMetadata ==
    { [description |-> "d"],
      [description |-> "d", patientId |-> "P2"],
      [description |-> "d", fileId |-> "F2", stageId |-> "S2"] }

MetadataFileDatas ==
    { [buffer |-> b, filename |-> "scan.png", contentType |-> "image/png",
       fileId |-> "F1", metadata |-> m] :
        b \in {Payload(10), Payload(RawThreshold + 1)}, m \in CallerMetadata }

NextMetadata ==
    \E c \in {"c1"} :
        \/ \E at \in ExistingCoords, fileData \in MetadataFileDatas :
              AddFile(c, at[1], at[2], at[3], fileData)
        \/ AddAttach(c)
        \/ \E p \in PatientIds : ListFiles(c, p)

SpecMetadata == InitSeeded /\ [][NextMetadata]_vars

----------------------------------------------------------------------------
(* Direct calls of FileService.base64ToBuffer                               *)

\* what the call gives its caller: the buffer, or the thrown error
Decoded(r) ==
    IF r.ok THEN [kind |-> "buffer", buffer |-> r.buffer]
    ELSE [kind |-> "error", msg |-> "File too large"]

\* FileService.base64ToBuffer(base64Data, maxSize)
DecodeBase64(c, base64Data, maxSize) ==
    /\ Begin(c, [op |-> "base64ToBuffer", base64Data |-> base64Data,
                 maxSize |-> maxSize])
    /\ Return(c, Decoded(base64ToBuffer(base64Data, maxSize)))
    /\ loc' = [loc EXCEPT ![c] = NoLocals]
    /\ UNCHANGED <<patients, fs>>

\* the least length whose estimate is not below the direct-decode limit
FirstSliced == (DirectDecodeLimit * 4 + 2) \div 3

\* valid texts, padded and unpadded: short ones; ones around the direct-decode
\* limit; ones of two slices, of two slices and a tail, and of more than
\* three slices; and ones around the default maximum
DecodeTexts ==
    { Text(n, tail) :
        n \in {0, FirstSliced - 7, FirstSliced - 3,
               2 * DecodeSliceChars - 4, 2 * DecodeSliceChars,
               3 * DecodeSliceChars + 8,
               (DefaultMaxSize * 4) \div 3 - 5, (DefaultMaxSize * 4) \div 3 - 1},
        tail \in Tails }

\* the default maximum, and one below the longer texts
MaxSizes == {DefaultMaxSize, 2 * DirectDecodeLimit}

NextDecode ==
    \E c \in {"c1"} :
        \E base64Data \in DecodeTexts, maxSize \in MaxSizes :
            DecodeBase64(c, base64Data, maxSize)

SpecDecode == Init /\ [][NextDecode]_vars

----------------------------------------------------------------------------
(* Properties                                                              *)

\* the stage stageId exists inside the episode episodeId of the patient
HasStageAt(coll, patientId, episodeId, stageId) ==
    /\ IsSome(coll[patientId])
    /\ IsSome(StageOf(FindEpisode(coll[patientId][1].episodes, episodeId), stageId))

\* that stage holds a descriptor with the fileId
HasDescriptor(coll, patientId, episodeId, stageId, fileId) ==
    /\ IsSome(coll[patientId])
    /\ \E i \in DOMAIN StageFiles(coll[patientId][1], episodeId, stageId) :
          StageFiles(coll[patientId][1], episodeId, stageId)[i].fileId = fileId

Last(seq) == seq[Len(seq)]

\* the storage mode of a descriptor
IsInline(d) ==
    IsSome(d.binaryData) /\ IsSome(Field(d.binaryData[1], "data")) /\ ~IsSome(d.fileRef)

IsChunked(d) == IsSome(d.fileRef) /\ ~IsSome(d.binaryData)

\* the last call of client c was op and has returned or thrown
Finished(c, op) == pc[c] = "idle" /\ call[c].op = op /\ ret[c].kind # "none"

\* client c takes a step of a call op in this transition
Steps(c, op) == call'[c].op = op /\ (calls'[c] # calls[c] \/ pc[c] # "idle")

\* the stage's file list client c's addFile call addressed, in the document
\* the call returned
Attached(c) ==
    StageFiles(ret[c].doc, call[c].episodeId, call[c].stageId)

\* C1: an addFileWithBinary call with a content type outside the five allowed
\* ones throws in its first step, and that step changes neither the patients
\* collection nor the chunk store, whatever the payload size and the
\* attachment point.
C1_InvalidTypeRejectedBeforeMutation ==
    [][\A c \in Clients :
          (/\ Steps(c, "addFile")
           /\ call'[c].fileData.contentType \notin
                 {"application/pdf", "image/jpeg", "image/jpg", "image/png", "image/gif"})
          => /\ patients' = patients
             /\ fs' = fs
             /\ pc'[c] = "idle"
             /\ ret'[c].kind = "error"]_vars

\* a text/plain payload above the threshold, addressed to an existing stage,
\* has been rejected and the chunk store is still empty
C1_Witness ==
    \E c \in Clients :
        /\ Finished(c, "addFile")
        /\ call[c].fileData.contentType = "text/plain"
        /\ BufLen(call[c].fileData.buffer) > RawThreshold
        /\ HasStageAt(patients, call[c].patientId, call[c].episodeId, call[c].stageId)
        /\ ret[c].kind = "error"
        /\ fs.files = {}

\* C2: on the raw path the mode depends on the buffer length alone: a call
\* with an allowed type has uploaded an object to the chunk store exactly when
\* the length is above 1048576, and the descriptor it attached is Inline for
\* a length at or below 1048576 (the tie included) and Chunked above it.
C2_ModeByBufferLength ==
    \A c \in Clients :
        (Finished(c, "addFile") /\ ret[c].kind # "error")
        => /\ IsSome(loc[c].gridFSId) <=> BufLen(call[c].fileData.buffer) > 1048576
           /\ (ret[c].kind = "doc" /\ Attached(c) # << >>)
              => /\ Last(Attached(c)).fileId = call[c].fileData.fileId
                 /\ IF BufLen(call[c].fileData.buffer) <= 1048576
                    THEN IsInline(Last(Attached(c)))
                    ELSE IsChunked(Last(Attached(c)))

\* a payload of exactly the threshold length has been attached Inline
C2_Witness ==
    \E c \in Clients :
        /\ Finished(c, "addFile")
        /\ ret[c].kind = "doc"
        /\ BufLen(call[c].fileData.buffer) = RawThreshold
        /\ Attached(c) # << >>
        /\ IsInline(Last(Attached(c)))

\* the base64 text of the file a createPatient request submitted in E1/S1
SubmittedText(c) ==
    call[c].payload.episodes[1].stages[1].files[1].binaryData[1].data

\* the descriptor the request stored for it
StoredFirst(c) == StageFiles(ret[c].doc, "E1", "S1")[1]

\* C3: on the base64 path the decision is taken on the estimate 3/4 of the
\* encoded length against 10 MiB: when the estimate is above 10485760 the file
\* went through uploadFromBase64 to the chunk store (the descriptor holds the
\* id of a stored object and no data), otherwise the request uploaded nothing
\* and the descriptor is Inline: it holds no object id but the decoded data.
\* An estimate equal to the limit is under the second case, and so is the
\* estimate 0 of the empty text.
C3_Base64ModeByEstimate ==
    \A c \in Clients :
        (/\ Finished(c, "createPatient")
         /\ ret[c].kind = "doc"
         /\ call[c].payload.episodes[1].stages[1].files # << >>)
        => IF 3 * StrLen(SubmittedText(c)) > 4 * 10485760
           THEN /\ ~IsSome(StoredFirst(c).binaryData[1].data)
                /\ IsSome(Field(StoredFirst(c).binaryData[1], "gridFSId"))
                /\ FsHas(fs.files, Field(StoredFirst(c).binaryData[1], "gridFSId")[1])
           ELSE /\ IsInline(StoredFirst(c))
                /\ ~IsSome(Field(StoredFirst(c).binaryData[1], "gridFSId"))
                /\ \A i \in DOMAIN loc[c].done : loc[c].done[i] # "gridfs.upload"

\* what getFile answers for the file client c's addFile call has just added
Fetched(c) ==
    getFile(patients, fs, call[c].patientId, call[c].episodeId, call[c].stageId,
            call[c].fileData.fileId)

\* getFile gives back what the call uploaded
RoundTrip(c) ==
    /\ Fetched(c).kind = "file"
    /\ Fetched(c).buffer = call[c].fileData.buffer
    /\ Fetched(c).contentType = call[c].fileData.contentType
    /\ Fetched(c).filename = call[c].fileData.filename

\* C4: after addFileWithBinary of a payload below 1048576 bytes to an existing
\* stage, getFile with the same identifiers returns the uploaded bytes,
\* content type and file name, and the attached descriptor is Inline.
C4_InlineRoundTrip ==
    \A c \in Clients :
        (/\ Finished(c, "addFile")
         /\ ret[c].kind = "doc"
         /\ BufLen(call[c].fileData.buffer) < RawThreshold
         /\ HasStageAt(patients, call[c].patientId, call[c].episodeId, call[c].stageId))
        => /\ IsInline(Last(Attached(c)))
           /\ RoundTrip(c)

\* C5: after addFileWithBinary of a payload above 1048576 bytes to an existing
\* stage, getFile returns the uploaded bytes, the attached descriptor is
\* Chunked, and its object has ceil(size / 261120) chunks.
C5_ChunkedRoundTrip ==
    \A c \in Clients :
        (/\ Finished(c, "addFile")
         /\ ret[c].kind = "doc"
         /\ BufLen(call[c].fileData.buffer) > RawThreshold
         /\ HasStageAt(patients, call[c].patientId, call[c].episodeId, call[c].stageId))
        => /\ IsChunked(Last(Attached(c)))
           /\ Cardinality(ChunksOf(fs.chunks, Last(Attached(c)).fileRef[1].fileId))
                 = (BufLen(call[c].fileData.buffer) + 261119) \div 261120
           /\ RoundTrip(c)

\* C6: what downloadFileFromGridFS reassembles for the id uploadFromBase64
\* returned is the decoding of the whole string in one step, for strings whose
\* length is or is not a multiple of 4 and that are shorter or longer than one
\* slice of the stream.
C6_Base64UploadRoundTrip ==
    \A c \in Clients :
        (Finished(c, "uploadFromBase64") /\ ret[c].kind = "id")
        => downloadFileFromGridFS(fs.files, fs.chunks, ret[c].id)
              = [ok |-> TRUE, buffer |-> Base64Decode(call[c].base64Data)]

\* an unpadded string longer than two slices has been uploaded and reads back
C6_Witness ==
    \E c \in Clients :
        /\ Finished(c, "uploadFromBase64")
        /\ ret[c].kind = "id"
        /\ StrLen(call[c].base64Data) % 4 # 0
        /\ StrLen(call[c].base64Data) > 2 * 1398100
        /\ downloadFileFromGridFS(fs.files, fs.chunks, ret[c].id).ok
        /\ BufLen(downloadFileFromGridFS(fs.files, fs.chunks, ret[c].id).buffer)
              > 2 * DefaultStreamChunk

\* C7: addFileWithBinary returns null whenever the patient has no stage
\* stageId inside the episode episodeId, also when the stage id exists in
\* another episode of the patient.
C7_NullWhenNoStage ==
    \A c \in Clients :
        (/\ Finished(c, "addFile")
         /\ ret[c].kind # "error"
         /\ ~HasStageAt(patients, call[c].patientId, call[c].episodeId, call[c].stageId))
        => ret[c].kind = "null"

\* C8: no step of an addFileWithBinary call addressed to a stage that does not
\* exist changes the patients collection or the chunk store.
C8_NoPartialMutation ==
    [][\A c \in Clients :
          (/\ Steps(c, "addFile")
           /\ ~HasStageAt(patients, call'[c].patientId, call'[c].episodeId,
                          call'[c].stageId))
          => (patients' = patients /\ fs' = fs)]_vars

\* C9: no step of a deleteFile call whose fileId has no descriptor in the
\* addressed stage changes the patients collection or the chunk store, and
\* the call returns false; also when the fileId is in another stage.
C9_AbsentFileIdIsNoOp ==
    [][\A c \in Clients :
          (/\ Steps(c, "deleteFile")
           /\ ~HasDescriptor(patients, call'[c].patientId, call'[c].episodeId,
                             call'[c].stageId, call'[c].fileId))
          => /\ patients' = patients
             /\ fs' = fs
             /\ pc'[c] = "idle" => ret'[c] = [kind |-> "bool", val |-> FALSE]]_vars

\* a deleteFile whose fileId is held by another stage of the patient only has
\* gone through its updateOne and returned false
C9_Witness ==
    \E c \in Clients :
        /\ Finished(c, "deleteFile")
        /\ ret[c] = [kind |-> "bool", val |-> FALSE]
        /\ Last(loc[c].done) = "updateOne"
        /\ HasStageAt(patients, call[c].patientId, call[c].episodeId, call[c].stageId)
        /\ ~HasDescriptor(patients, call[c].patientId, call[c].episodeId,
                          call[c].stageId, call[c].fileId)
        /\ HasFile(patients[call[c].patientId][1], call[c].fileId)

\* the file list of the stage client c's deleteFile call addresses
Addressed(c) ==
    StageFiles(patients[call[c].patientId][1], call[c].episodeId, call[c].stageId)

\* C10: when a step of a deleteFile call takes descriptors out of the stage's
\* file list, the chunk data of every Chunked descriptor it takes out has been
\* deleted by the call before: the deleteFileFromGridFS of that descriptor's
\* object is among the operations the call has done, and the object is gone
\* from the chunk store.
C10_ChunksDeletedBeforeDescriptor ==
    [][\A c \in Clients :
          (/\ Steps(c, "deleteFile")
           /\ pc[c] # "idle"
           /\ patients' # patients)
          => \A i \in DOMAIN Addressed(c) :
                (/\ Addressed(c)[i].fileId = call[c].fileId
                 /\ IsSome(Addressed(c)[i].fileRef))
                => /\ IsSome(loc[c].file)
                   /\ loc[c].file[1].fileRef = Addressed(c)[i].fileRef
                   /\ \E k \in DOMAIN loc[c].done : loc[c].done[k] = "gridfs.delete"
                   /\ ~FsHas(fs.files, Addressed(c)[i].fileRef[1].fileId)
                   /\ ChunksOf(fs.chunks, Addressed(c)[i].fileRef[1].fileId) = {}]_vars

\* every descriptor of the collection that holds a fileRef refers to an object
\* of the chunk store
NoDanglingRef ==
    \A p \in PatientIds :
        IsSome(patients[p]) =>
            \A i \in DOMAIN patients[p][1].episodes :
                \A j \in DOMAIN patients[p][1].episodes[i].stages :
                    \A k \in DOMAIN patients[p][1].episodes[i].stages[j].files :
                        IsSome(patients[p][1].episodes[i].stages[j].files[k].fileRef)
                        => FsHas(fs.files,
                                 patients[p][1].episodes[i].stages[j].files[k].fileRef[1].fileId)

\* C11: whenever no call is in progress, also after a crash in the middle of
\* a deleteFile, no stage holds a fileRef whose object is gone from the chunk
\* store.
C11_NoDanglingReferenceAfterCrash ==
    (\A c \in Clients : pc[c] = "idle") => NoDanglingRef

\* C12: when deleteFile returns true, every Chunked descriptor with the given
\* fileId that its $pull takes out of the stage's file list has no chunk left
\* in the chunk store, also when the stage holds several of them.
C12_RemovedDescriptorsHaveNoChunks ==
    [][\A c \in Clients :
          (/\ Steps(c, "deleteFile")
           /\ pc'[c] = "idle"
           /\ ret'[c] = [kind |-> "bool", val |-> TRUE])
          => \A i \in DOMAIN StageFiles(patients[call[c].patientId][1],
                                        call[c].episodeId, call[c].stageId) :
                (/\ StageFiles(patients[call[c].patientId][1], call[c].episodeId,
                               call[c].stageId)[i].fileId = call[c].fileId
                 /\ IsChunked(StageFiles(patients[call[c].patientId][1],
                                         call[c].episodeId, call[c].stageId)[i]))
                => ChunksOf(fs'.chunks,
                            StageFiles(patients[call[c].patientId][1], call[c].episodeId,
                                       call[c].stageId)[i].fileRef[1].fileId) = {}]_vars

\* the descriptor holds exactly one of an inline payload and a chunk reference
ExactlyOneMode(d) ==
    (IsSome(d.binaryData) /\ IsSome(Field(d.binaryData[1], "data"))) # IsSome(d.fileRef)

\* C13: every descriptor of every stage of every patient holds exactly one of
\* an inline payload (binaryData with data) and a chunked reference (fileRef),
\* whichever path stored it.
C13_ExactlyOneStorageMode ==
    \A p \in PatientIds :
        IsSome(patients[p]) =>
            \A i \in DOMAIN patients[p][1].episodes :
                \A j \in DOMAIN patients[p][1].episodes[i].stages :
                    \A k \in DOMAIN patients[p][1].episodes[i].stages[j].files :
                        ExactlyOneMode(patients[p][1].episodes[i].stages[j].files[k])

\* C14: a getFile call addressed to a stage that holds a descriptor with the
\* fileId returns a file, neither null nor an error.
C14_GetFileResolvesStoredDescriptors ==
    \A c \in Clients :
        (/\ Finished(c, "getFile")
         /\ HasDescriptor(patients, call[c].patientId, call[c].episodeId,
                          call[c].stageId, call[c].fileId))
        => ret[c].kind = "file"

\* the bytes a descriptor stands for: the recorded size of an inline payload,
\* the length of the referenced object of a chunked one
ListedFor(d, files) ==
    IF IsSome(d.binaryData)
    THEN \E x \in files : /\ x.metadata.fileId = d.fileId
                          /\ x.length = d.binaryData[1].size.num
    ELSE \E x \in files : x.id = d.fileRef[1].fileId

\* C15: what listPatientFiles(p) returns has an entry for every descriptor
\* attached to any stage of any episode of patient p, the Inline ones
\* included: after a 10-byte PNG has been uploaded the listing holds an entry
\* of size 10.
C15_ListingHasEveryAttachedFile ==
    \A c \in Clients :
        (Finished(c, "listPatientFiles") /\ IsSome(patients[call[c].patientId]))
        => \A i \in DOMAIN patients[call[c].patientId][1].episodes :
              \A j \in DOMAIN patients[call[c].patientId][1].episodes[i].stages :
                 \A k \in DOMAIN patients[call[c].patientId][1].episodes[i].stages[j].files :
                    ListedFor(patients[call[c].patientId][1].episodes[i].stages[j].files[k],
                              ret[c].files)

\* C16: no step of an addFileWithBinary call whose payload has at most
\* 1048576 bytes changes the chunk store, whether the attachment point exists
\* or not.
C16_InlinePathLeavesChunkStore ==
    [][\A c \in Clients :
          (/\ Steps(c, "addFile")
           /\ BufLen(call'[c].fileData.buffer) <= 1048576)
          => fs' = fs]_vars

\* the third call has attached a payload of the threshold length Inline to an
\* existing stage, and the chunk store is still empty
C16_Witness ==
    \E c \in Clients :
        /\ Finished(c, "addFile")
        /\ ret[c].kind = "doc"
        /\ BufLen(call[c].fileData.buffer) = RawThreshold
        /\ Len(Attached(c)) = 1
        /\ IsInline(Last(Attached(c)))
        /\ calls[c] = 3
        /\ fs.files = {}
        /\ fs.chunks = {}

\* the addFile calls of clients c and d, both returned, addressed the same
\* stage with different fileIds
SameStageAdds(c, d) ==
    /\ c # d
    /\ Finished(c, "addFile") /\ ret[c].kind = "doc"
    /\ Finished(d, "addFile") /\ ret[d].kind = "doc"
    /\ call[c].patientId = call[d].patientId
    /\ call[c].episodeId = call[d].episodeId
    /\ call[c].stageId = call[d].stageId
    /\ call[c].fileData.fileId # call[d].fileData.fileId

\* C17: once two addFileWithBinary calls of different clients with different
\* fileIds on the same existing stage have both returned, the stage's file
\* list holds both descriptors, in whatever order their store operations
\* were interleaved.
C17_ConcurrentAddsBothPresent ==
    \A c, d \in Clients :
        SameStageAdds(c, d)
        => /\ HasDescriptor(patients, call[c].patientId, call[c].episodeId,
                            call[c].stageId, call[c].fileData.fileId)
           /\ HasDescriptor(patients, call[d].patientId, call[d].episodeId,
                            call[d].stageId, call[d].fileData.fileId)

\* two Chunked uploads overlapped: the client that uploaded first attached
\* last, and both descriptors are in the stage
C17_Witness ==
    \E c, d \in Clients :
        /\ SameStageAdds(c, d)
        /\ IsSome(loc[c].gridFSId) /\ IsSome(loc[d].gridFSId)
        /\ loc[c].gridFSId[1] < loc[d].gridFSId[1]
        /\ StageFiles(patients[call[c].patientId][1], call[c].episodeId, call[c].stageId)
              = <<RefFile(call[d].fileData, loc[d].gridFSId[1]),
                  RefFile(call[c].fileData, loc[c].gridFSId[1])>>

\* client c's addFile call fails in its upload in this transition
UploadFails(c) ==
    Steps(c, "addFile") /\ loc'[c].done = <<"gridfs.upload.failed">>

\* C18: when the chunk store fails in the middle of the upload,
\* addFileWithBinary throws, the patients collection is unchanged, and the
\* chunks already written stay in the chunk store without a files document;
\* and a step of addFileWithBinary that attaches a fileRef is taken only when
\* the referenced object is complete in the chunk store.
C18_AttachOnlyAfterUpload ==
    [][\A c \in Clients :
          /\ UploadFails(c)
             => /\ pc'[c] = "idle"
                /\ ret'[c].kind = "error"
                /\ patients' = patients
                /\ fs'.files = fs.files
                /\ fs.chunks \subseteq fs'.chunks
                /\ ~FsHas(fs'.files, fs.next)
          /\ (Steps(c, "addFile") /\ pc[c] = "attach")
             => /\ FsHas(fs.files, loc[c].gridFSId[1])
                /\ downloadFileFromGridFS(fs.files, fs.chunks, loc[c].gridFSId[1])
                      = [ok |-> TRUE, buffer |-> call[c].fileData.buffer]]_vars

\* an upload to an existing stage has failed after four of its five chunks:
\* the call threw, the four chunks are in the chunk store without a files
\* document, and no stage holds a descriptor
C18_Witness ==
    \E c \in Clients :
        /\ Finished(c, "addFile")
        /\ ret[c].kind = "error"
        /\ loc[c].done = <<"gridfs.upload.failed">>
        /\ Cardinality(ChunksOf(fs.chunks, loc[c].gridFSId[1])) = 4
        /\ ~FsHas(fs.files, loc[c].gridFSId[1])
        /\ patients = SeededPatients

\* the content type of the file a createPatient request submits in E1/S1
\* the files with base64 text in the body of the createPatient request
SubmittedBase64Files(payload) ==
    IF payload.episodes = << >> THEN {}
    ELSE { f \in { payload.episodes[1].stages[1].files[i] :
                     i \in DOMAIN payload.episodes[1].stages[1].files } :
             Base64Of(f) # << >> }

\* C19: a createPatient request with a base64 file whose content type is not
\* one of the five allowed ones fails: none of its steps creates an object in
\* the chunk store or inserts a patient document, and it ends with an error.
C19_Base64TypeRejected ==
    [][\A c \in Clients :
          (/\ Steps(c, "createPatient")
           /\ \E f \in SubmittedBase64Files(call'[c].payload) :
                 ~validateFileType(ContentTypeOf(f)))
          => /\ pc'[c] = "idle" => ret'[c].kind = "error"
             /\ patients' = patients
             /\ fs' = fs]_vars

\* the text has a character outside the alphabet, or a '=' that is followed
\* by something else than '='
Malformed(s) ==
    \E i \in DOMAIN s :
        \/ s[i].c > Pad
        \/ s[i].c = Pad /\ i < Len(s)

\* C20: an uploadFromBase64 call whose text has a malformed segment fails
\* with an error, and no object is stored for it.
C20_MalformedInputFails ==
    \A c \in Clients :
        (Finished(c, "uploadFromBase64") /\ Malformed(call[c].base64Data))
        => /\ ret[c].kind = "error"
           /\ ~FsHas(fs.files, loc[c].gridFSId[1])

\* the call of client c is a deleteFile whose deletion of the chunk data failed
ChunkDeletionFailed(c) ==
    /\ Finished(c, "deleteFile")
    /\ \E i \in DOMAIN loc[c].done : loc[c].done[i] = "gridfs.delete.failed"

\* C21: a deleteFile whose chunk deletion failed still removes the descriptor
\* from the stage, and does not return plain true.
C21_ChunkDeletionFailureSurfaced ==
    \A c \in Clients :
        (ChunkDeletionFailed(c) /\ ret[c].kind # "crashed")
        => /\ ~HasDescriptor(patients, call[c].patientId, call[c].episodeId,
                             call[c].stageId, call[c].fileId)
           /\ ret[c] # [kind |-> "bool", val |-> TRUE]

\* no two positions of the file list hold the same fileId
DistinctFileIds(files) ==
    \A k, l \in DOMAIN files : files[k].fileId = files[l].fileId => k = l

\* C22: in every reachable state, each stage's file list holds every fileId at
\* most once.
C22_FileIdUniqueWithinStage ==
    \A p \in PatientIds :
        IsSome(patients[p]) =>
            \A i \in DOMAIN patients[p][1].episodes :
                \A j \in DOMAIN patients[p][1].episodes[i].stages :
                    DistinctFileIds(patients[p][1].episodes[i].stages[j].files)

\* the number of bytes the chunk store holds for the object id
StoredBytes(id) == BufLen(downloadFileFromGridFS(fs.files, fs.chunks, id).buffer)

\* the size recorded for the descriptor d is the number of bytes stored for it
SizeIsExact(d) ==
    /\ (IsSome(d.binaryData) /\ IsSome(Field(d.binaryData[1], "data")))
       => d.binaryData[1].size =
              [num |-> BufLen(binaryToBuffer(d.binaryData[1].data[1])), den |-> 1]
    /\ (IsSome(d.binaryData) /\ IsSome(Field(d.binaryData[1], "gridFSId"))
            /\ FsHas(fs.files, Field(d.binaryData[1], "gridFSId")[1]))
       => d.binaryData[1].size.num =
              d.binaryData[1].size.den * StoredBytes(Field(d.binaryData[1], "gridFSId")[1])
    /\ (IsSome(d.fileRef) /\ FsHas(fs.files, d.fileRef[1].fileId))
       => FsFile(fs.files, d.fileRef[1].fileId).length = StoredBytes(d.fileRef[1].fileId)

\* C23: the size recorded for every stored file is the number of bytes stored,
\* for inline descriptors and for chunked entries, those that createPatient
\* makes from base64 included.
C23_RecordedSizeIsExact ==
    \A p \in PatientIds :
        IsSome(patients[p]) =>
            \A i \in DOMAIN patients[p][1].episodes :
                \A j \in DOMAIN patients[p][1].episodes[i].stages :
                    \A k \in DOMAIN patients[p][1].episodes[i].stages[j].files :
                        SizeIsExact(patients[p][1].episodes[i].stages[j].files[k])

\* the descriptor the getFile call of client c resolved
Resolved(c) ==
    ResolveFile(patients[call[c].patientId][1], call[c].episodeId, call[c].stageId,
                call[c].fileId)[1]

\* C24: a getFile that downloads a chunked file never holds more payload bytes
\* than a fixed number of chunks, however large the file is.
C24_DownloadHoldsBoundedBytes ==
    \A c \in Clients :
        (/\ Finished(c, "getFile")
         /\ ret[c].kind = "file"
         /\ IsSome(Resolved(c).fileRef))
        => \A n \in 0 .. Cardinality(ChunksOf(fs.chunks, Resolved(c).fileRef[1].fileId)) :
              DownloadHeld(fs.chunks, Resolved(c).fileRef[1].fileId, n)
                  <= HeldChunksLimit * ChunkSizeBytes

\* the getFile call of client c has resolved a Chunked descriptor whose object
\* is not in the chunk store
FetchedMissingObject(c) ==
    /\ Finished(c, "getFile")
    /\ ret[c].kind # "crashed"
    /\ MatchFile(patients, call[c].patientId, call[c].episodeId, call[c].stageId,
                 call[c].fileId)
    /\ IsSome(ResolveFile(patients[call[c].patientId][1], call[c].episodeId,
                          call[c].stageId, call[c].fileId))
    /\ ~IsSome(Resolved(c).binaryData)
    /\ IsSome(Resolved(c).fileRef)
    /\ ~FsHas(fs.files, Resolved(c).fileRef[1].fileId)

\* C25: getFile on a Chunked descriptor whose object is not in the chunk store
\* throws the download's FileNotFound error; it returns no file and no null.
C25_MissingObjectIsAnError ==
    \A c \in Clients :
        FetchedMissingObject(c) => ret[c] = [kind |-> "error", msg |-> "FileNotFound"]

C25_Witness ==
    \E c \in Clients :
        /\ FetchedMissingObject(c)
        /\ ret[c].kind = "error"
        /\ calls[c] = 3

\* the slices a stream has consumed from a text of the given length, with the
\* sizes of the chunks decoded from them
AlignedSlices(sl, len, chunkSize) ==
    \A i \in DOMAIN sl :
        /\ sl[i].lo = (IF i = 1 THEN 0 ELSE sl[i - 1].hi)
        /\ sl[i].hi <= len
        /\ sl[i].size > 0
           => /\ sl[i].lo % 4 = 0
              /\ sl[i].lo < sl[i].hi
              /\ sl[i].size <= chunkSize
              /\ sl[i].hi < len
                 => /\ (sl[i].hi - sl[i].lo) % 4 = 0
                    /\ \A j \in DOMAIN sl : sl[j].size <= sl[i].size

\* the sizes of the chunks that were emitted, those of a positive size
EmittedSizes(sl) ==
    LET emitted(x) == x.size > 0 IN
    [i \in DOMAIN SelectSeq(sl, emitted) |-> SelectSeq(sl, emitted)[i].size]

\* C26: the slices a Base64ChunkStream consumes follow one another from 0
\* without overlap or gap; every chunk it has emitted was decoded from a slice
\* that starts at a multiple of 4 and, unless it is the last of the text, has
\* a positive length that is a multiple of 4; no chunk is longer than
\* chunkSize bytes, and no chunk is longer than one decoded from a slice that
\* is not the last.
C26_SlicesAlignedToQuanta ==
    \A c \in Clients :
        call[c].op = "stream"
        => /\ EmittedSizes(loc[c].slices)
                 = [i \in DOMAIN loc[c].pushed |-> BufLen(loc[c].pushed[i])]
           /\ AlignedSlices(loc[c].slices, StrLen(call[c].base64Data),
                            call[c].chunkSize)

\* C27: every Base64ChunkStream that is being read eventually signals its end,
\* whatever the text and the chunk size, chunk sizes of 1 and 2 bytes
\* included.
C27_StreamEventuallyEnds ==
    \A c \in Clients :
        (pc[c] = "reading") ~> (pc[c] = "idle" /\ ret[c].kind = "end")

\* the last calls of c and d were deleteFile calls for the same file, and
\* both have returned
BothDeleted(c, d) ==
    /\ c # d
    /\ Finished(c, "deleteFile")
    /\ Finished(d, "deleteFile")
    /\ call[c] = call[d]

\* C28: of two deleteFile calls for the same file, interleaved in any order,
\* at most one returns true, none throws, and the descriptor is gone when
\* both have returned.
C28_ConcurrentDeletesOnceTrue ==
    \A c, d \in Clients :
        BothDeleted(c, d)
        => /\ ret[c].kind = "bool" /\ ret[d].kind = "bool"
           /\ ~(ret[c].val /\ ret[d].val)
           /\ ~HasDescriptor(patients, call[c].patientId, call[c].episodeId,
                             call[c].stageId, call[c].fileId)

\* both calls found the chunked file; the one that came second to the chunk
\* store failed to delete the object and came first to the $pull
C28_Witness ==
    \E c, d \in Clients :
        /\ BothDeleted(c, d)
        /\ loc[c].done = <<"findOne", "gridfs.delete", "updateOne">>
        /\ loc[d].done = <<"findOne", "gridfs.delete.failed", "updateOne">>
        /\ ret[d].val /\ ~ret[c].val

\* the chunk-store object the addFile call of client c has created
UploadedObject(c) == FsFile(fs.files, loc[c].gridFSId[1])

\* C29: the object an addFileWithBinary call has created carries in its
\* metadata the patientId, episodeId, stageId and fileId of the call, whatever
\* metadata the caller passed, and listPatientFiles of that patient has it.
C29_OwnerMetadataFromCall ==
    \A c \in Clients :
        (/\ Finished(c, "addFile")
         /\ IsSome(loc[c].gridFSId)
         /\ FsHas(fs.files, loc[c].gridFSId[1]))
        => /\ UploadedObject(c).metadata.patientId = call[c].patientId
           /\ UploadedObject(c).metadata.episodeId = call[c].episodeId
           /\ UploadedObject(c).metadata.stageId = call[c].stageId
           /\ UploadedObject(c).metadata.fileId = call[c].fileData.fileId
           /\ UploadedObject(c) \in listPatientFiles(fs, call[c].patientId)

\* the estimate of the text of client c's base64ToBuffer call is above, or is
\* at least, the limit
EstimateExceeds(c, limit) == StrLen(call[c].base64Data) * 3 > limit * 4

EstimateReaches(c, limit) == StrLen(call[c].base64Data) * 3 >= limit * 4

\* C30: base64ToBuffer of a valid text whose estimate is at most maxSize and
\* at least 5 MiB returns the bytes that decoding the whole text in one step
\* gives, and a text whose estimate is above maxSize makes it throw.
C30_SlicedDecodeEqualsWhole ==
    \A c \in Clients :
        Finished(c, "base64ToBuffer")
        => /\ EstimateExceeds(c, call[c].maxSize) => ret[c].kind = "error"
           /\ (~EstimateExceeds(c, call[c].maxSize) /\ EstimateReaches(c, DirectDecodeLimit))
              => ret[c] = [kind |-> "buffer", buffer |-> Base64Decode(call[c].base64Data)]

\* an unpadded text of more than three slices has been decoded slice by slice
C30_Witness ==
    \E c \in Clients :
        /\ Finished(c, "base64ToBuffer")
        /\ StrLen(call[c].base64Data) > 3 * DecodeSliceChars
        /\ StrLen(call[c].base64Data) % 4 # 0
        /\ ret[c].kind = "buffer"
        /\ BufLen(ret[c].buffer) = (StrLen(call[c].base64Data) * 3) \div 4

====
